---- MODULE Spec2Model ----
(***************************************************************************)
(* Grant evaluator: the live-status broadcaster (backend/websocket_manager *)
(* .py), the request handler that drives one evaluation run               *)
(* (backend/main.py) and the staged pipeline it runs on a worker thread    *)
(* (backend/evaluation_pipeline.py).                                       *)
(*                                                                         *)
(* Coroutines of the event loop are modelled step by step.  A step runs   *)
(* from the point where the coroutine resumes up to and including the     *)
(* effect of the next awaited call on a websocket (send_json, close,      *)
(* accept): the message is handed to the socket when send_json is called, *)
(* and the coroutine may be suspended inside the call afterwards.  The    *)
(* asyncio lock is only ever held across code without an await, so a lock *)
(* section is part of one step.                                           *)
(*                                                                         *)
(* Spec     the broadcaster under arbitrary callers of its four methods   *)
(* SpecRun  one evaluation request with a session id, its observers        *)
(***************************************************************************)
EXTENDS Integers, Sequences, FiniteSets, TLC

VARIABLES
    connections,   \* WebSocketManager._connections: session id -> set of websockets
    pending,       \* WebSocketManager._pending_messages: session id -> list of messages
    ws,            \* state of each websocket as its send_json/close see it
    received,      \* messages each websocket's peer was handed, in order
    conn,          \* per websocket: the connect() coroutine and its locals
    sends,         \* the send() coroutines started so far, with their locals
    closes,        \* per session: the close_session() coroutine and its locals
    discarded,     \* messages thrown away by close_session's pop of the buffer
    loopQ,         \* callbacks handed to the event loop by call_soon_threadsafe
    wpc,           \* worker thread: position in run_full_evaluation
    emitted,       \* payloads emit_stage passed to status_callback, in order
    failure,       \* the exception that ended the pipeline ("none": no exception)
    failedAt,      \* stage ordinal in which a collaborator raised (-1: none)
    plagiarism,    \* plagiarism_result: "none" | "ok" | "error"
    hpc,           \* create_evaluation: position of the request handler
    lock,          \* WebSocketManager._lock: the task that holds it, or Unlocked
    tasks,         \* SpecLock: the calls of the broadcaster's methods, statement by statement
    override,      \* run_full_evaluation: override_domain ("none": None)
    calls,         \* the collaborators run_full_evaluation called, in order, with the domain passed
    domain,        \* run_full_evaluation: domain ("unset" before the domain stage)
    budget,        \* budget stage: what the tiers yielded, budget_text, budget_evaluation
    cbFaults,      \* how many times status_callback raised
    result,        \* what run_full_evaluation returned (<<>>: nothing yet)
    blend,         \* compute_weighted_score: its arguments and what it returned
    parse,         \* run_grant_scoring / run_grant_critique: the response and what was returned
    llm,           \* gemini_llm: the retry loop of one call
    evals,         \* concurrent run_full_evaluation calls: position, vs, what retrieval returned
    vstores        \* the collections of the process's Chroma client: name -> contents

bvars == <<connections, pending, ws, received, conn, sends, closes, discarded>>
rvars == <<loopQ, wpc, emitted, failure, failedAt, plagiarism, hpc>>
lvars == <<lock, tasks>>
\* The variables neither Spec nor SpecRun changes.
pvars == <<override, calls, domain, budget, cbFaults, result>>
\* The arguments and results of the pure functions.
fvars == <<blend, parse>>
\* The model call and the retrieval indexes.
gvars == <<llm, evals, vstores>>
xvars == <<lvars, pvars, fvars, gvars>>
vars == <<connections, pending, ws, received, conn, sends, closes, discarded,
          loopQ, wpc, emitted, failure, failedAt, plagiarism, hpc, lock, tasks,
          override, calls, domain, budget, cbFaults, result, blend, parse,
          llm, evals, vstores>>

(***************************************************************************)
(* Bounds of the model                                                     *)
(***************************************************************************)
Sessions == {"s1", "s2"}
Observers == {"w1", "w2"}
MaxEvents == 2
MaxFaults == 1
MaxCloses == 1
RunSession == "s1"
\* The websockets that clients open on the session of the evaluation run.
RunObservers == {"w1"}
\* (one websocket: every send() of the run ends in the step it starts in)
\* SpecRun: the loop lags the worker by at most MaxBacklog callbacks, and a
\* client subscribes while the buffer holds at most MaxFlush messages.
MaxBacklog == 2
MaxFlush == 2
\* The sessions a websocket's client may ask for (the first one always asks
\* for the first session: the sessions are interchangeable).
Home(o) == IF o = "w1" THEN {"s1"} ELSE Sessions

(***************************************************************************)
(* Dictionaries with a dynamic key set (dict / defaultdict)                *)
(***************************************************************************)
EmptyMap == [k \in {} |-> {}]

Get(d, k, default) == IF k \in DOMAIN d THEN d[k] ELSE default

Put(d, k, v) == [x \in (DOMAIN d) \cup {k} |-> IF x = k THEN v ELSE d[x]]

Pop(d, k) == [x \in (DOMAIN d) \ {k} |-> d[x]]

Range(s) == {s[i] : i \in DOMAIN s}

Occurrences(s, x) == Cardinality({i \in DOMAIN s : s[i] = x})

(***************************************************************************)
(* A websocket.  "fresh": not accepted yet.  "open": send_json succeeds.   *)
(* "closed": the server called close(); starlette raises RuntimeError on   *)
(* any later send or close.  "gone": the peer disconnected; send_json     *)
(* raises WebSocketDisconnect (or RuntimeError).  "broken": send_json and  *)
(* close raise an exception of another class (OSError and the like, from  *)
(* the server under starlette).                                            *)
(***************************************************************************)
WsStates == {"fresh", "open", "closed", "gone", "broken"}

\* What `await websocket.send_json(message)` does on websocket o.
SendJson(o) ==
    CASE ws[o] = "open" -> "ok"
      [] ws[o] = "broken" -> "other"
      [] OTHER -> "disconnect"

\* What `await websocket.close()` can do on websocket o: "ok", "runtime" (a
\* RuntimeError: close already sent) or "other" (WebSocketDisconnect, OSError...).
\* For a peer that is gone the class of the exception depends on where the
\* failure is noticed.
CloseOutcomes(o) ==
    CASE ws[o] = "open" -> {"ok"}
      [] ws[o] = "closed" -> {"runtime"}
      [] ws[o] = "gone" -> {"runtime", "other"}
      [] OTHER -> {"other"}

\* The peer's view after send_json(m) was called on o.
HandOver(o, m) ==
    IF SendJson(o) = "ok" THEN [received EXCEPT ![o] = Append(@, m)] ELSE received

(***************************************************************************)
(* WebSocketManager: the dictionary updates made under the lock            *)
(***************************************************************************)
\* connect: self._connections[session_id].add(websocket)
Register(conns, s, o) == Put(conns, s, Get(conns, s, {}) \cup {o})

\* (a disconnect that drops the whole session)
UnregisterAll(conns, s, o) == Pop(conns, s)

\* disconnect: remove the websocket, drop the key when the set became empty
Unregister(conns, s, o) ==
    IF s \in DOMAIN conns /\ conns[s] # {} /\ o \in conns[s]
    THEN IF conns[s] \ {o} = {} THEN Pop(conns, s)
         ELSE [conns EXCEPT ![s] = @ \ {o}]
    ELSE conns

\* (a connect that reads the buffer and leaves it in place)
TakePendingKeep(pend, s) == pend

\* connect: the buffer that is left by self._pending_messages.pop(session_id, [])
TakePending(pend, s) == Pop(pend, s)

\* (a close_session that leaves the buffer in place)
DiscardBufferKeep(pend, s) == pend

\* close_session: self._pending_messages.pop(session_id, None)
DiscardBuffer(pend, s) == Pop(pend, s)

\* (a send that takes the websockets of every session)
SnapshotEveryone(conns, s) == UNION {conns[x] : x \in DOMAIN conns}

\* send: list(self._connections.get(session_id, []))
Snapshot(conns, s) == Get(conns, s, {})

\* (a send that forgets the message when the session has no websocket)
BufferNothing(pend, s, m) == pend

\* send: self._pending_messages[session_id].append(message)
Buffer(pend, s, m) == Put(pend, s, Append(Get(pend, s, <<>>), m))

\* send: the removal of the websockets in to_remove.  The walrus test that
\* follows binds a non-empty set, so its `if not connections` never holds and
\* the key of an emptied set stays in the dictionary.
DropFailed(conns, s, gone) ==
    IF s \in DOMAIN conns THEN [conns EXCEPT ![s] = @ \ gone] ELSE conns

(***************************************************************************)
(* connect(session_id, websocket)                                          *)
(***************************************************************************)
NoConn == [pc |-> "idle", session |-> "none", queue |-> <<>>, idx |-> 0,
           lost |-> FALSE]

\* connect's state after _safe_send of q[i]: _safe_send swallows
\* WebSocketDisconnect and RuntimeError, anything else leaves connect.
AfterFlush(c, o, q, i) ==
    [c EXCEPT !.queue = q, !.idx = i,
              !.lost = c.lost \/ SendJson(o) = "disconnect",
              !.pc = IF SendJson(o) = "other" THEN "crashed"
                     ELSE IF i = Len(q) THEN "serving" ELSE "flush"]

\* await websocket.accept()
ConnectAccept(s, o) ==
    /\ conn[o].pc = "idle"
    /\ ws[o] = "fresh"
    /\ ws' = [ws EXCEPT ![o] = "open"]
    /\ conn' = [conn EXCEPT ![o] = [@ EXCEPT !.pc = "accepted", !.session = s]]
    /\ UNCHANGED <<connections, pending, received, sends, closes, discarded>>

\* The lock section of connect, then the first buffered message.
ConnectRegister(o) ==
    /\ conn[o].pc = "accepted"
    /\ LET s == conn[o].session
           q == Get(pending, s, <<>>)
           c == conn[o]
       IN /\ connections' = Register(connections, s, o)
          /\ pending' = TakePending(pending, s)
          /\ IF q = <<>>
             THEN /\ conn' = [conn EXCEPT ![o] = [c EXCEPT !.pc = "serving"]]
                  /\ UNCHANGED received
             ELSE /\ conn' = [conn EXCEPT ![o] = AfterFlush(c, o, q, 1)]
                  /\ received' = HandOver(o, q[1])
    /\ UNCHANGED <<ws, sends, closes, discarded>>

\* for message in pending: await self._safe_send(websocket, message)
ConnectFlush(o) ==
    /\ conn[o].pc = "flush"
    /\ LET q == conn[o].queue
           i == conn[o].idx + 1
       IN /\ conn' = [conn EXCEPT ![o] = AfterFlush(conn[o], o, q, i)]
          /\ received' = HandOver(o, q[i])
    /\ UNCHANGED <<connections, pending, ws, sends, closes, discarded>>

(***************************************************************************)
(* disconnect(session_id, websocket)                                       *)
(***************************************************************************)
Disconnect(s, o) ==
    /\ conn[o].pc \notin {"accepted", "flush"}
    /\ connections' = Unregister(connections, s, o)
    /\ UNCHANGED <<pending, ws, received, conn, sends, closes, discarded>>

(***************************************************************************)
(* send(session_id, message)                                               *)
(***************************************************************************)
NewSend(m, s, by) ==
    [msg |-> m, session |-> s, pc |-> "deliver", todo |-> {}, failed |-> {},
     snap |-> {}, by |-> by]

\* (a loop that stops after its first websocket)
AfterSendFirstOnly(t, o) ==
    [t EXCEPT !.todo = {},
              !.failed = IF SendJson(o) = "disconnect" THEN {o} ELSE {},
              !.pc = IF SendJson(o) = "other" THEN "raised"
                     ELSE IF SendJson(o) = "disconnect" THEN "cleanup" ELSE "done"]

\* One turn of `for websocket in connections`, on websocket o.
AfterSend(t, o) ==
    LET todo2 == t.todo \ {o}
        failed2 == IF SendJson(o) = "disconnect" THEN t.failed \cup {o} ELSE t.failed
    IN [t EXCEPT !.todo = todo2, !.failed = failed2,
                 !.pc = IF SendJson(o) = "other" THEN "raised"
                        ELSE IF todo2 # {} THEN "deliver"
                        ELSE IF failed2 # {} THEN "cleanup" ELSE "done"]

\* The first lock section of send and, with observers, the first send_json.
SendBegin(m, s, by) ==
    LET snap == Snapshot(connections, s)
        t == [NewSend(m, s, by) EXCEPT !.todo = snap, !.snap = snap]
    IN IF snap = {}
       THEN /\ pending' = Buffer(pending, s, m)
            /\ sends' = sends \cup {[t EXCEPT !.pc = "buffered"]}
            /\ UNCHANGED received
       ELSE /\ \E o \in snap :
                 /\ sends' = sends \cup {AfterSend(t, o)}
                 /\ received' = HandOver(o, m)
            /\ UNCHANGED pending

SendNext(t) ==
    /\ t.pc = "deliver"
    /\ \E o \in t.todo :
         /\ sends' = (sends \ {t}) \cup {AfterSend(t, o)}
         /\ received' = HandOver(o, t.msg)
    /\ UNCHANGED <<connections, pending, ws, conn, closes, discarded>>

\* if to_remove: the second lock section
SendCleanup(t) ==
    /\ t.pc = "cleanup"
    /\ connections' = DropFailed(connections, t.session, t.failed)
    /\ sends' = (sends \ {t}) \cup {[t EXCEPT !.pc = "done"]}
    /\ UNCHANGED <<pending, ws, received, conn, closes, discarded>>

(***************************************************************************)
(* close_session(session_id)                                               *)
(***************************************************************************)
NoClose == [pc |-> "idle", todo |-> {}, snap |-> {}, seen |-> EmptyMap]

\* The second lock section: self._pending_messages.pop(session_id, None)
CloseReturn(c, s) ==
    /\ pending' = DiscardBuffer(pending, s)
    /\ discarded' = discarded \cup Range(Get(pending, s, <<>>))
    /\ closes' = [closes EXCEPT ![s] =
                     [c EXCEPT !.pc = "done",
                               !.seen = [o \in c.snap |-> Len(received[o])]]]

\* One turn of `for websocket in websockets`, on websocket o with outcome out.
CloseOne(c, s, o, out) ==
    /\ ws' = [ws EXCEPT ![o] = IF out = "ok" THEN "closed" ELSE @]
    /\ closes' = [closes EXCEPT ![s] =
                     [c EXCEPT !.todo = c.todo \ {o},
                               !.pc = IF out = "other" THEN "raised"
                                      ELSE IF c.todo \ {o} = {} THEN "final"
                                      ELSE "closing"]]

\* The first lock section and the first websocket.close(); without
\* websockets nothing is awaited and the buffer is popped in the same step.
CloseBegin(s) ==
    /\ closes[s].pc = "idle"
    /\ Cardinality({x \in Sessions : closes[x].pc # "idle"}) < MaxCloses
    /\ LET snap == Get(connections, s, {})
           c == [closes[s] EXCEPT !.todo = snap, !.snap = snap]
       IN /\ connections' = Pop(connections, s)
          /\ IF snap = {}
             THEN CloseReturn(c, s) /\ UNCHANGED ws
             ELSE /\ \E o \in snap : \E out \in CloseOutcomes(o) : CloseOne(c, s, o, out)
                  /\ UNCHANGED <<pending, discarded>>
    /\ UNCHANGED <<received, conn, sends>>

CloseNext(s) ==
    /\ closes[s].pc = "closing"
    /\ \E o \in closes[s].todo : \E out \in CloseOutcomes(o) :
          CloseOne(closes[s], s, o, out)
    /\ UNCHANGED <<connections, pending, received, conn, sends, discarded>>

CloseFinal(s) ==
    /\ closes[s].pc = "final"
    /\ CloseReturn(closes[s], s)
    /\ UNCHANGED <<connections, ws, received, conn, sends>>

(***************************************************************************)
(* The peers and the callers of the broadcaster                            *)
(***************************************************************************)
Faults == Cardinality({o \in Observers : ws[o] \in {"gone", "broken"}})

\* The peer of websocket o disconnects.
PeerGone(o) ==
    /\ ws[o] = "open"
    /\ Faults < MaxFaults
    /\ ws' = [ws EXCEPT ![o] = "gone"]
    /\ UNCHANGED <<connections, pending, received, conn, sends, closes, discarded>>

\* The transport under websocket o fails with an error that is neither a
\* WebSocketDisconnect nor a RuntimeError.
WsBreak(o) ==
    /\ ws[o] = "open"
    /\ Faults < MaxFaults
    /\ ws' = [ws EXCEPT ![o] = "broken"]
    /\ UNCHANGED <<connections, pending, received, conn, sends, closes, discarded>>

\* A caller publishes the next message to session s.
Publish(s) ==
    /\ Cardinality(sends) < MaxEvents
    /\ SendBegin([event |-> "msg", id |-> Cardinality(sends) + 1], s, "caller")
    /\ UNCHANGED <<connections, ws, conn, closes, discarded>>

\* SpecLock: the calls of connect, disconnect, send and close_session that run
\* concurrently, each a task of its own.
NumTasks == 3

Tasks == 1 .. NumTasks

\* asyncio.Lock(): nobody holds the lock
Unlocked == 0

NoTask == [op |-> "none", pc |-> "idle", session |-> "none", o |-> "none",
           snap |-> {}, todo |-> {}, failed |-> {}, queue |-> <<>>]

InitLock ==
    /\ lock = Unlocked
    /\ tasks = [t \in Tasks |-> NoTask]

\* The budget stage before it ran.
NoBudget == [tiers |-> <<>>, text |-> <<>>, eval |-> <<>>]

\* run_full_evaluation's own state, before the call.
InitIdlePipe ==
    /\ override = "none"
    /\ calls = <<>>
    /\ domain = "unset"
    /\ budget = NoBudget
    /\ cbFaults = 0
    /\ result = <<>>

\* No call of the scoring functions is under way.
InitIdleFn ==
    /\ blend = <<>>
    /\ parse = <<>>

\* No model call and no run with an index is under way.
InitIdleIndex ==
    /\ llm = <<>>
    /\ evals = <<>>
    /\ vstores = <<>>

InitBroadcaster ==
    /\ connections = EmptyMap
    /\ pending = EmptyMap
    /\ ws = [o \in Observers |-> "fresh"]
    /\ received = [o \in Observers |-> <<>>]
    /\ conn = [o \in Observers |-> NoConn]
    /\ sends = {}
    /\ closes = [s \in Sessions |-> NoClose]
    /\ discarded = {}

InitIdleRun ==
    /\ loopQ = <<>>
    /\ wpc = <<"idle">>
    /\ emitted = <<>>
    /\ failure = "none"
    /\ failedAt = -1
    /\ plagiarism = "none"
    /\ hpc = "idle"

Init == InitBroadcaster /\ InitIdleRun /\ InitLock /\ InitIdlePipe /\ InitIdleFn /\ InitIdleIndex

Next ==
    \/ \E o \in Observers : \E s \in Home(o) : ConnectAccept(s, o) /\ UNCHANGED <<rvars, xvars>>
    \/ \E o \in Observers : ConnectRegister(o) /\ UNCHANGED <<rvars, xvars>>
    \/ \E o \in Observers : ConnectFlush(o) /\ UNCHANGED <<rvars, xvars>>
    \/ \E s \in Sessions, o \in Observers : Disconnect(s, o) /\ UNCHANGED <<rvars, xvars>>
    \/ \E s \in Sessions : Publish(s) /\ UNCHANGED <<rvars, xvars>>
    \/ \E t \in sends : SendNext(t) /\ UNCHANGED <<rvars, xvars>>
    \/ \E t \in sends : SendCleanup(t) /\ UNCHANGED <<rvars, xvars>>
    \/ \E s \in Sessions : CloseBegin(s) /\ UNCHANGED <<rvars, xvars>>
    \/ \E s \in Sessions : CloseNext(s) /\ UNCHANGED <<rvars, xvars>>
    \/ \E s \in Sessions : CloseFinal(s) /\ UNCHANGED <<rvars, xvars>>
    \/ \E o \in Observers : PeerGone(o) /\ UNCHANGED <<rvars, xvars>>
    \/ \E o \in Observers : WsBreak(o) /\ UNCHANGED <<rvars, xvars>>

Spec == Init /\ [][Next]_vars

(***************************************************************************)
(* run_full_evaluation on the worker thread (evaluation_pipeline.py)       *)
(***************************************************************************)
TotalStages == 8

Stages == 0 .. (TotalStages - 1)

Max2(a, b) == IF a > b THEN a ELSE b

Min2(a, b) == IF a < b THEN a ELSE b

\* (a progress that clamps `completed` like `started`, to 99)
StageProgressCapped(k, status) ==
    IF status = "started"
    THEN Max2(0, Min2(99, (k * 100) \div TotalStages))
    ELSE Max2(1, Min2(99, ((k + 1) * 100) \div TotalStages))

\* emit_stage: progress_value without a progress_override.  int((k / 8) * 100)
\* is computed in floating point; k / 8 and its hundredfold are exact there.
StageProgress(k, status) ==
    IF status = "started"
    THEN Max2(0, Min2(99, (k * 100) \div TotalStages))
    ELSE Max2(1, Min2(100, ((k + 1) * 100) \div TotalStages))

\* emit_stage: the payload (its key, label, message and timestamp left out)
StagePayload(k, status) ==
    [event |-> "status", stage_index |-> k, status |-> status,
     progress |-> StageProgress(k, status)]

\* queue_status: run_coroutine_threadsafe(websocket_manager.send(...), loop)
Scheduled(q, payload) == Append(q, [kind |-> "send", msg |-> payload])

\* emit_stage(k, status) with status_callback = queue_status
Emit(k, status) ==
    /\ emitted' = Append(emitted, StagePayload(k, status))
    /\ loopQ' = Scheduled(loopQ, StagePayload(k, status))

\* (no stage guards its collaborator)
AbsorbsNone(k) == FALSE

\* The stages whose collaborator is called inside a try/except that swallows
\* every Exception: the plagiarism detector of the compliance stage.
Absorbs(k) == k = 6

\* (a pipeline that skips the stage after the next)
AfterStageSkip(k) ==
    IF k >= TotalStages - 2 THEN <<"returned">> ELSE <<"start", k + 2>>

\* Where run_full_evaluation goes after emit_stage(k, "completed").
AfterStage(k) ==
    IF k = 4 THEN <<"check">>
    ELSE IF k = TotalStages - 1 THEN <<"returned">>
    ELSE <<"start", k + 1>>

\* The worker's future is done: the loop is told by call_soon_threadsafe.
WorkerEnds(q) == Append(q, [kind |-> "result"])

\* emit_stage(k, "started", ...)
StageStart(k) ==
    /\ wpc = <<"start", k>>
    /\ Emit(k, "started")
    /\ wpc' = <<"call", k>>
    /\ UNCHANGED <<failure, failedAt, plagiarism, hpc>>

\* The collaborators of stage k return; emit_stage(k, "completed", ...).
\* Stage 6 runs detect_plagiarism only with check_plagiarism.  The return of
\* the last stage ends the worker.
StageDone(k) ==
    /\ wpc = <<"call", k>>
    /\ emitted' = Append(emitted, StagePayload(k, "completed"))
    /\ loopQ' = IF AfterStage(k) = <<"returned">>
                THEN WorkerEnds(Scheduled(loopQ, StagePayload(k, "completed")))
                ELSE Scheduled(loopQ, StagePayload(k, "completed"))
    /\ wpc' = AfterStage(k)
    /\ IF k = 6
       THEN \E check_plagiarism \in BOOLEAN :
               plagiarism' = IF check_plagiarism THEN "ok" ELSE "none"
       ELSE UNCHANGED plagiarism
    /\ UNCHANGED <<failure, failedAt, hpc>>

\* A collaborator of stage k raises (kind "quota": the message of the
\* exception names 429 / quota, or its class is ResourceExhausted).  Nothing
\* in run_full_evaluation catches it, except in the compliance stage.
StageRaise(k) ==
    /\ wpc = <<"call", k>>
    /\ IF Absorbs(k)
       THEN /\ plagiarism' = "error"
            /\ Emit(k, "completed")
            /\ wpc' = AfterStage(k)
            /\ UNCHANGED <<failure, failedAt>>
       ELSE /\ \E kind \in {"collaborator", "quota"} : failure' = kind
            /\ failedAt' = k
            /\ wpc' = <<"raised">>
            /\ loopQ' = WorkerEnds(loopQ)
            /\ UNCHANGED <<emitted, plagiarism>>
    /\ UNCHANGED hpc

\* input_agent returns no pages: raise ValueError("Document extraction failed.")
NoPages ==
    /\ wpc = <<"call", 0>>
    /\ failure' = "no_pages"
    /\ wpc' = <<"raised">>
    /\ loopQ' = WorkerEnds(loopQ)
    /\ UNCHANGED <<emitted, failedAt, plagiarism, hpc>>

\* After the critique stage: build_critique_domain_scores, the checks of the
\* scoring result and compute_weighted_score.
ScoresChecked ==
    /\ wpc = <<"check">>
    /\ wpc' = <<"start", 5>>
    /\ UNCHANGED <<loopQ, emitted, failure, failedAt, plagiarism, hpc>>

\* ... the scoring result is no dict, has no usable key or is empty:
\* ValueError / KeyError.
ScoresRejected ==
    /\ wpc = <<"check">>
    /\ failure' = "bad_scores"
    /\ wpc' = <<"raised">>
    /\ loopQ' = WorkerEnds(loopQ)
    /\ UNCHANGED <<emitted, failedAt, plagiarism, hpc>>

(***************************************************************************)
(* create_evaluation, the request handler on the event loop (main.py)      *)
(***************************************************************************)
QueuedMsg == [event |-> "status", stage_index |-> -1, status |-> "queued", progress |-> 0]

CompleteMsg == [event |-> "complete", progress |-> 100]

ErrorMsg(text) == [event |-> "error", message |-> text]

\* The send() the handler is awaiting has ended: "ok", "raised" or "running".
Awaited(m) ==
    IF \E t \in sends : t.by = "handler" /\ t.msg = m /\ t.pc \in {"done", "buffered"}
    THEN "ok"
    ELSE IF \E t \in sends : t.by = "handler" /\ t.msg = m /\ t.pc = "raised"
    THEN "raised"
    ELSE "running"

\* if session_id: await websocket_manager.send(session_id, {... "queued" ...})
HandlerStart ==
    /\ hpc = "idle"
    /\ SendBegin(QueuedMsg, RunSession, "handler")
    /\ hpc' = "queued"
    /\ UNCHANGED <<connections, ws, conn, closes, discarded,
                   loopQ, wpc, emitted, failure, failedAt, plagiarism>>

\* The queued send returned: loop.run_in_executor(None, run_pipeline).  It
\* is awaited outside every try: an exception of the send ends the request.
HandlerSpawn ==
    /\ hpc = "queued"
    /\ Awaited(QueuedMsg) # "running"
    /\ IF Awaited(QueuedMsg) = "ok"
       THEN hpc' = "waiting" /\ wpc' = <<"start", 0>>
       ELSE hpc' = "raised" /\ UNCHANGED wpc
    /\ UNCHANGED <<bvars, loopQ, emitted, failure, failedAt, plagiarism>>

\* The loop starts the coroutine queue_status scheduled next.
LoopSend ==
    /\ loopQ # <<>>
    /\ Head(loopQ).kind = "send"
    /\ SendBegin(Head(loopQ).msg, RunSession, "loop")
    /\ loopQ' = Tail(loopQ)
    /\ UNCHANGED <<connections, ws, conn, closes, discarded,
                   wpc, emitted, failure, failedAt, plagiarism, hpc>>

\* The loop resumes the handler with the worker's result or exception.  An
\* exception naming the API quota is answered with an error event; any other
\* is re-raised, and no handler encloses the re-raise.
LoopResume ==
    /\ loopQ # <<>>
    /\ Head(loopQ).kind = "result"
    /\ hpc = "waiting"
    /\ loopQ' = Tail(loopQ)
    /\ IF failure = "none"
       THEN hpc' = "persist" /\ UNCHANGED <<pending, received, sends>>
       ELSE IF failure = "quota"
       THEN hpc' = "error_sent" /\ SendBegin(ErrorMsg("quota"), RunSession, "handler")
       ELSE hpc' = "failed" /\ UNCHANGED <<pending, received, sends>>
    /\ UNCHANGED <<connections, ws, conn, closes, discarded,
                   wpc, emitted, failure, failedAt, plagiarism>>

\* insert_one returned: send the complete event.
Persisted ==
    /\ hpc = "persist"
    /\ SendBegin(CompleteMsg, RunSession, "handler")
    /\ hpc' = "complete_sent"
    /\ UNCHANGED <<connections, ws, conn, closes, discarded,
                   loopQ, wpc, emitted, failure, failedAt, plagiarism>>

\* insert_one raised: the except clause sends the error event.
PersistFailed ==
    /\ hpc = "persist"
    /\ SendBegin(ErrorMsg("failed"), RunSession, "handler")
    /\ hpc' = "error_sent"
    /\ UNCHANGED <<connections, ws, conn, closes, discarded,
                   loopQ, wpc, emitted, failure, failedAt, plagiarism>>

\* The send of the complete event returned: return evaluation_doc.  Had it
\* raised, the except clause would send the error event.
HandlerReturn ==
    /\ hpc = "complete_sent"
    /\ Awaited(CompleteMsg) # "running"
    /\ IF Awaited(CompleteMsg) = "ok"
       THEN hpc' = "returned" /\ UNCHANGED <<pending, received, sends>>
       ELSE hpc' = "error_sent" /\ SendBegin(ErrorMsg("failed"), RunSession, "handler")
    /\ UNCHANGED <<connections, ws, conn, closes, discarded,
                   loopQ, wpc, emitted, failure, failedAt, plagiarism>>

\* The send of the error event ended: raise HTTPException.
HandlerFail ==
    /\ hpc = "error_sent"
    /\ \E t \in sends : t.by = "handler" /\ t.msg.event = "error"
                        /\ t.pc \in {"done", "buffered", "raised"}
    /\ hpc' = "failed"
    /\ UNCHANGED <<bvars, loopQ, wpc, emitted, failure, failedAt, plagiarism>>

\* evaluation_status_socket: the peer disconnects, receive_text raises
\* WebSocketDisconnect and the handler calls disconnect.
ClientLeaves(o) ==
    /\ conn[o].pc = "serving"
    /\ ws[o] = "open"
    /\ ws' = [ws EXCEPT ![o] = "gone"]
    /\ connections' = Unregister(connections, conn[o].session, o)
    /\ conn' = [conn EXCEPT ![o] = [@ EXCEPT !.pc = "ended"]]
    /\ UNCHANGED <<pending, received, sends, closes, discarded>>

LoopKeepsUp == Len(loopQ) < MaxBacklog

ClientEarly == Len(Get(pending, RunSession, <<>>)) <= MaxFlush

NextRun ==
    \/ HandlerStart /\ UNCHANGED xvars
    \/ HandlerSpawn /\ UNCHANGED xvars
    \/ LoopSend /\ UNCHANGED xvars
    \/ LoopResume /\ UNCHANGED xvars
    \/ Persisted /\ UNCHANGED xvars
    \/ PersistFailed /\ UNCHANGED xvars
    \/ HandlerReturn /\ UNCHANGED xvars
    \/ HandlerFail /\ UNCHANGED xvars
    \/ \E k \in Stages : LoopKeepsUp /\ StageStart(k) /\ UNCHANGED bvars /\ UNCHANGED xvars
    \/ \E k \in Stages : LoopKeepsUp /\ StageDone(k) /\ UNCHANGED bvars /\ UNCHANGED xvars
    \/ \E k \in Stages : LoopKeepsUp /\ StageRaise(k) /\ UNCHANGED bvars /\ UNCHANGED xvars
    \/ NoPages /\ UNCHANGED bvars /\ UNCHANGED xvars
    \/ ScoresChecked /\ UNCHANGED bvars /\ UNCHANGED xvars
    \/ ScoresRejected /\ UNCHANGED bvars /\ UNCHANGED xvars
    \/ \E o \in RunObservers : ConnectAccept(RunSession, o) /\ UNCHANGED <<rvars, xvars>>
    \/ \E o \in RunObservers : ClientEarly /\ ConnectRegister(o) /\ UNCHANGED <<rvars, xvars>>
    \/ \E o \in RunObservers : ConnectFlush(o) /\ UNCHANGED <<rvars, xvars>>
    \/ \E o \in RunObservers : ClientLeaves(o) /\ UNCHANGED <<rvars, xvars>>

SpecRun == Init /\ [][NextRun]_vars

(***************************************************************************)
(* WebSocketManager statement by statement: `async with self._lock` is an  *)
(* acquire (the task waits while the lock is held), the statements of its  *)
(* body, and the release at its end.  A task at "crit1"/"crit2" is about   *)
(* to run the body of the first/second `async with` of its method; at      *)
(* "accept", "flush", "deliver", "closing" it is about to await a call on  *)
(* a websocket.                                                            *)
(***************************************************************************)
TaskMsg(t) == [event |-> "msg", id |-> t]

\* The end of an `async with self._lock` block.
Release(t) == IF lock = t THEN Unlocked ELSE lock

SetTask(t, r) == tasks' = [tasks EXCEPT ![t] = r]

\* A caller starts method op; connect begins with `await websocket.accept()`,
\* the others with `async with self._lock`.  (The tasks are interchangeable:
\* they are numbered in the order of their calls.)
Call(t, op, s, o) ==
    /\ tasks[t].pc = "idle"
    /\ \A u \in Tasks : u < t => tasks[u].pc # "idle"
    /\ (op \in {"connect", "disconnect"}) = (o # "none")
    /\ SetTask(t, [NoTask EXCEPT !.op = op, !.session = s, !.o = o,
                                 !.pc = IF op = "connect" THEN "accept" ELSE "lock1"])
    /\ UNCHANGED <<lock, connections, pending, received>>

\* connect: await websocket.accept()
Accept(t) ==
    /\ tasks[t].op = "connect" /\ tasks[t].pc = "accept"
    /\ SetTask(t, [tasks[t] EXCEPT !.pc = "lock1"])
    /\ UNCHANGED <<lock, connections, pending, received>>

\* async with self._lock: the acquire
Acquire(t) ==
    /\ tasks[t].pc \in {"lock1", "lock2"}
    /\ lock = Unlocked
    /\ lock' = t
    /\ SetTask(t, [tasks[t] EXCEPT !.pc = IF @ = "lock1" THEN "crit1" ELSE "crit2"])
    /\ UNCHANGED <<connections, pending, received>>

\* connect: the body of the lock block
ConnectLocked(t) ==
    /\ tasks[t].op = "connect" /\ tasks[t].pc = "crit1"
    /\ connections' = Register(connections, tasks[t].session, tasks[t].o)
    /\ pending' = TakePending(pending, tasks[t].session)
    /\ SetTask(t, [tasks[t] EXCEPT
                     !.queue = Get(pending, tasks[t].session, <<>>),
                     !.pc = IF Get(pending, tasks[t].session, <<>>) = <<>>
                            THEN "end" ELSE "flush"])
    /\ lock' = Release(t)
    /\ UNCHANGED received

\* connect: for message in pending: await self._safe_send(websocket, message)
Flush(t) ==
    /\ tasks[t].op = "connect" /\ tasks[t].pc = "flush"
    /\ \E ok \in BOOLEAN :
          received' = IF ok THEN [received EXCEPT ![tasks[t].o] = Append(@, Head(tasks[t].queue))]
                      ELSE received
    /\ SetTask(t, [tasks[t] EXCEPT !.queue = Tail(@),
                                   !.pc = IF Tail(tasks[t].queue) = <<>> THEN "end" ELSE "flush"])
    /\ UNCHANGED <<lock, connections, pending>>

\* disconnect: the body of the lock block
DisconnectLocked(t) ==
    /\ tasks[t].op = "disconnect" /\ tasks[t].pc = "crit1"
    /\ connections' = Unregister(connections, tasks[t].session, tasks[t].o)
    /\ SetTask(t, [tasks[t] EXCEPT !.pc = "end"])
    /\ lock' = Release(t)
    /\ UNCHANGED <<pending, received>>

\* send: the body of the first lock block
SendLocked(t) ==
    /\ tasks[t].op = "send" /\ tasks[t].pc = "crit1"
    /\ LET snap == Snapshot(connections, tasks[t].session)
       IN IF snap = {}
          THEN /\ pending' = Buffer(pending, tasks[t].session, TaskMsg(t))
               /\ SetTask(t, [tasks[t] EXCEPT !.pc = "end"])
          ELSE /\ SetTask(t, [tasks[t] EXCEPT !.snap = snap, !.todo = snap, !.pc = "deliver"])
               /\ UNCHANGED pending
    /\ lock' = Release(t)
    /\ UNCHANGED <<connections, received>>

\* (a send that enters its second block without the lock)
AfterDeliverBare(r) ==
    IF r.todo # {} THEN "deliver" ELSE IF r.failed # {} THEN "crit2" ELSE "end"

\* send: where the task is after a turn of `for websocket in connections`;
\* `if to_remove: async with self._lock`.
AfterDeliver(r) ==
    IF r.todo # {} THEN "deliver" ELSE IF r.failed # {} THEN "lock2" ELSE "end"

\* send: await websocket.send_json(message) on a websocket of the snapshot;
\* a WebSocketDisconnect or RuntimeError puts the websocket in to_remove.
Deliver(t) ==
    /\ tasks[t].op = "send" /\ tasks[t].pc = "deliver"
    /\ \E o \in tasks[t].todo : \E ok \in BOOLEAN :
          LET r == [tasks[t] EXCEPT !.todo = @ \ {o},
                                    !.failed = IF ok THEN @ ELSE @ \cup {o}]
          IN /\ SetTask(t, [r EXCEPT !.pc = AfterDeliver(r)])
             /\ received' = IF ok THEN [received EXCEPT ![o] = Append(@, TaskMsg(t))]
                            ELSE received
    /\ UNCHANGED <<lock, connections, pending>>

\* send: the body of the second lock block
SendCleanupLocked(t) ==
    /\ tasks[t].op = "send" /\ tasks[t].pc = "crit2"
    /\ connections' = DropFailed(connections, tasks[t].session, tasks[t].failed)
    /\ SetTask(t, [tasks[t] EXCEPT !.pc = "end"])
    /\ lock' = Release(t)
    /\ UNCHANGED <<pending, received>>

\* close_session: the body of the first lock block
CloseLocked(t) ==
    /\ tasks[t].op = "close" /\ tasks[t].pc = "crit1"
    /\ LET snap == Get(connections, tasks[t].session, {})
       IN SetTask(t, [tasks[t] EXCEPT !.snap = snap, !.todo = snap,
                                      !.pc = IF snap = {} THEN "lock2" ELSE "closing"])
    /\ connections' = Pop(connections, tasks[t].session)
    /\ lock' = Release(t)
    /\ UNCHANGED <<pending, received>>

\* close_session: await websocket.close(), a RuntimeError is passed over
Closing(t) ==
    /\ tasks[t].op = "close" /\ tasks[t].pc = "closing"
    /\ \E o \in tasks[t].todo :
          SetTask(t, [tasks[t] EXCEPT !.todo = @ \ {o},
                                      !.pc = IF tasks[t].todo \ {o} = {} THEN "lock2"
                                             ELSE "closing"])
    /\ UNCHANGED <<lock, connections, pending, received>>

\* close_session: the body of the second lock block
ClosePopLocked(t) ==
    /\ tasks[t].op = "close" /\ tasks[t].pc = "crit2"
    /\ pending' = DiscardBuffer(pending, tasks[t].session)
    /\ SetTask(t, [tasks[t] EXCEPT !.pc = "end"])
    /\ lock' = Release(t)
    /\ UNCHANGED <<connections, received>>

\* The sessions task t may be called for (the sessions are interchangeable:
\* the first call is for the first session).
CallSessions(t) == IF t = 1 THEN {RunSession} ELSE Sessions

\* What SpecLock leaves alone.
lrest == <<ws, conn, sends, closes, discarded, rvars, pvars, fvars, gvars>>

NextLock ==
    \/ \E t \in Tasks, o \in Observers \cup {"none"} : \E s \in CallSessions(t) :
          \E op \in {"connect", "disconnect", "send", "close"} :
             Call(t, op, s, o) /\ UNCHANGED lrest
    \/ \E t \in Tasks : Accept(t) /\ UNCHANGED lrest
    \/ \E t \in Tasks : Acquire(t) /\ UNCHANGED lrest
    \/ \E t \in Tasks : ConnectLocked(t) /\ UNCHANGED lrest
    \/ \E t \in Tasks : Flush(t) /\ UNCHANGED lrest
    \/ \E t \in Tasks : DisconnectLocked(t) /\ UNCHANGED lrest
    \/ \E t \in Tasks : SendLocked(t) /\ UNCHANGED lrest
    \/ \E t \in Tasks : Deliver(t) /\ UNCHANGED lrest
    \/ \E t \in Tasks : SendCleanupLocked(t) /\ UNCHANGED lrest
    \/ \E t \in Tasks : CloseLocked(t) /\ UNCHANGED lrest
    \/ \E t \in Tasks : Closing(t) /\ UNCHANGED lrest
    \/ \E t \in Tasks : ClosePopLocked(t) /\ UNCHANGED lrest

SpecLock == Init /\ [][NextLock]_vars

(***************************************************************************)
(* run_full_evaluation stage by stage, with its collaborators              *)
(* (evaluation_pipeline.py).  A text is a sequence of segments; a segment  *)
(* records where it comes from, its length and whether it holds one of the *)
(* words "budget", "cost", "$", "expense", "funding", "financial".         *)
(***************************************************************************)
Seg(src, len, kw) == [src |-> src, len |-> len, kw |-> kw]

RECURSIVE TextLen(_)
\* len(budget_text)
TextLen(text) == IF text = <<>> THEN 0 ELSE Head(text).len + TextLen(Tail(text))

\* any(keyword in budget_text.lower() for keyword in [...])
HasKw(text) == \E i \in DOMAIN text : text[i].kw

\* "\n\n--- Additional Budget Details from Pages ---\n\n"
SepPages == Seg("separator", 48, TRUE)

\* "\n\n--- Budget from Vectorstore ---\n\n"
SepVector == Seg("separator", 35, TRUE)

\* "\n\n--- From Objectives Section ---\n"
SepSection == Seg("separator", 34, FALSE)

\* What the four strategies find in a proposal: the text of the summary's
\* Budget section, the pages with budget words joined, the retrieved chunks
\* with budget words joined, and the text of another summary section that
\* holds one of the twelve budget_keywords.
TierInputs ==
    [t1 : {Seg("summary", 0, FALSE)} \cup {Seg("summary", n, k) : n \in {60, 150, 250}, k \in BOOLEAN},
     t2 : {Seg("pages", 0, FALSE)} \cup {Seg("pages", n, k) : n \in {40, 300}, k \in BOOLEAN},
     t3 : {Seg("vector", 0, FALSE), Seg("vector", 80, TRUE), Seg("vector", 120, TRUE)},
     t4 : {Seg("section", 0, FALSE), Seg("section", 30, FALSE), Seg("section", 30, TRUE)}]

\* Strategy 1: summary.get("Budget", {}).get("text", "")
WithSummary(in) == IF in.t1.len = 0 THEN <<>> ELSE <<in.t1>>

\* (a strategy 2 that always appends)
WithPagesAppended(text, in) ==
    IF in.t2.len = 0 THEN text
    ELSE IF text = <<>> THEN <<in.t2>> ELSE text \o <<SepPages, in.t2>>

\* Strategy 2: the raw pages replace a summary text under 100 characters and
\* are appended to a longer one.
WithPages(text, in) ==
    IF in.t2.len = 0 THEN text
    ELSE IF TextLen(text) < 100 THEN <<in.t2>>
    ELSE text \o <<SepPages, in.t2>>

\* Strategy 3: the retrieved chunks are appended if they are over 100 characters.
WithVector(text, in) ==
    IF in.t3.len > 100 THEN text \o <<SepVector, in.t3>> ELSE text

\* Strategy 4: under 200 characters, the other sections that mention a
\* budget keyword are appended.
WithSections(text, in) ==
    IF TextLen(text) < 200 /\ in.t4.len > 0
    THEN text \o <<SepSection, in.t4>>
    ELSE text

BudgetText(in) == WithSections(WithVector(WithPages(WithSummary(in), in), in), in)

\* The strategies that ran, each with the length of budget_text before it.
TiersRun(in) ==
    LET a == WithSummary(in)
        b == WithPages(a, in)
        c == WithVector(b, in)
    IN <<[tier |-> 1, before |-> 0], [tier |-> 2, before |-> TextLen(a)],
         [tier |-> 3, before |-> TextLen(b)]>>
       \o (IF TextLen(c) < 200 THEN <<[tier |-> 4, before |-> TextLen(c)]>> ELSE <<>>)

\* has_budget_info
HasBudgetInfo(text) == TextLen(text) > 50 /\ HasKw(text)

\* (the default of an unusable answer of the budget agent: no flag)
BudgetFailed == [totalBudget |-> 0, breakdown |-> <<>>, flags |-> <<>>]

\* budget_evaluation without budget information
BudgetFallback ==
    [totalBudget |-> 0, breakdown |-> <<>>, flags |-> <<[type |-> "warning"]>>]

\* budget_evaluation as run_budget_agent answers and the cleaning leaves it
AgentEvals ==
    {[totalBudget |-> b, breakdown |-> <<"item">>, flags |-> f] :
        b \in {0, 1000}, f \in {<<>>}}

\* SpecPipe: the callback raises at most MaxCbFaults times in a run.
MaxCbFaults == 2

\* override_domain as the request gives it: None, "" or a domain.
Overrides == {"none", "", "AI / Computer Science"}

\* What classify_domain answers.
Detected == "Healthcare"

\* `if override_domain:`
Supplied(ov) == ov \notin {"none", ""}

\* A call of collaborator fn with domain argument d ("-": it takes none).
Collab(fn, d) == [fn |-> fn, domain |-> d]

\* domain after the domain stage
DomainOf(ov) == IF Supplied(ov) THEN ov ELSE Detected

\* (a domain stage that classifies in every case)
DomainCallsAlways(ov) ==
    <<Collab("vectorstore_agent", "-"), Collab("classify_domain", "-")>>

\* The collaborators of the domain stage.
DomainCalls(ov) ==
    <<Collab("vectorstore_agent", "-")>>
    \o (IF Supplied(ov) THEN <<>> ELSE <<Collab("classify_domain", "-")>>)

\* The collaborators stage k calls, in order; choice is the stage's input
\* (budget stage: has_budget_info; compliance stage: check_plagiarism).
StageCalls(k, choice) ==
    CASE k = 0 -> <<Collab("input_agent", "-")>>
      [] k = 1 -> DomainCalls(override)
      [] k = 2 -> <<Collab("run_summarizer_extended", domain)>>
      [] k = 3 -> <<Collab("run_grant_scoring", domain)>>
      [] k = 4 -> <<Collab("run_grant_critique", domain)>>
      [] k = 5 -> <<Collab("vs.ask", "-")>>
                  \o (IF choice THEN <<Collab("run_budget_agent", domain)>> ELSE <<>>)
      [] k = 6 -> IF choice THEN <<Collab("detect_plagiarism", "-")>> ELSE <<>>
      [] OTHER -> <<Collab("run_final_decision_agent", domain),
                    Collab("format_evaluation_response", domain)>>

\* (an emit_stage without the try/except around the callback)
EmitStageBare(raised) == IF raised THEN "raise" ELSE "pass"

\* emit_stage: try: status_callback(payload) / except Exception: pass
EmitStage(raised) == "pass"

\* emit_stage(k, status) with a callback that raises or not; the run goes on
\* at position next.
PEmit(k, status, next) ==
    \E raised \in BOOLEAN :
        /\ raised => cbFaults < MaxCbFaults
        /\ emitted' = Append(emitted, StagePayload(k, status))
        /\ cbFaults' = IF raised THEN cbFaults + 1 ELSE cbFaults
        /\ IF EmitStage(raised) = "raise"
           THEN wpc' = <<"raised">> /\ failure' = "callback"
           ELSE wpc' = next /\ UNCHANGED failure

PStageStart(k) ==
    /\ wpc = <<"start", k>>
    /\ PEmit(k, "started", <<"call", k>>)
    /\ UNCHANGED <<failedAt, plagiarism, override, calls, domain, budget, result>>

\* Stages 0 to 4: the collaborators return.
PStage(k) ==
    /\ wpc = <<"call", k>> /\ k \in 0 .. 4
    /\ calls' = calls \o StageCalls(k, TRUE)
    /\ domain' = IF k = 1 THEN DomainOf(override) ELSE domain
    /\ PEmit(k, "completed", AfterStage(k))
    /\ UNCHANGED <<failedAt, plagiarism, override, budget, result>>

\* build_critique_domain_scores, the checks of the scores, compute_weighted_score
PCheck ==
    /\ wpc = <<"check">>
    /\ calls' = calls \o <<Collab("build_critique_domain_scores", domain),
                           Collab("compute_weighted_score", domain)>>
    /\ wpc' = <<"start", 5>>
    /\ UNCHANGED <<emitted, failure, failedAt, plagiarism, override, domain, budget,
                   cbFaults, result>>

PReject ==
    /\ wpc = <<"check">>
    /\ calls' = Append(calls, Collab("build_critique_domain_scores", domain))
    /\ wpc' = <<"raised">>
    /\ failure' = "bad_scores"
    /\ UNCHANGED <<emitted, failedAt, plagiarism, override, domain, budget,
                   cbFaults, result>>

\* The budget stage on a proposal in which the strategies find `in`.
PBudget(in) ==
    /\ wpc = <<"call", 5>>
    /\ LET text == BudgetText(in)
       IN /\ calls' = calls \o StageCalls(5, HasBudgetInfo(text))
          /\ \E ev \in (IF HasBudgetInfo(text) THEN AgentEvals ELSE {BudgetFallback}) :
                budget' = [tiers |-> <<in>>, text |-> text, eval |-> <<ev>>]
    /\ PEmit(5, "completed", AfterStage(5))
    /\ UNCHANGED <<failedAt, plagiarism, override, domain, result>>

\* The compliance stage.
PCompliance(check_plagiarism) ==
    /\ wpc = <<"call", 6>>
    /\ calls' = calls \o StageCalls(6, check_plagiarism)
    /\ plagiarism' = IF check_plagiarism THEN "ok" ELSE "none"
    /\ PEmit(6, "completed", AfterStage(6))
    /\ UNCHANGED <<failedAt, override, domain, budget, result>>

\* The last stage; return response.
PFinal ==
    /\ wpc = <<"call", 7>>
    /\ calls' = calls \o StageCalls(7, TRUE)
    /\ result' = <<[domain |-> domain, budget_analysis |-> budget.eval[1],
                    plagiarism_check |-> plagiarism]>>
    /\ PEmit(7, "completed", AfterStage(7))
    /\ UNCHANGED <<failedAt, plagiarism, override, domain, budget>>

\* The first collaborator of stage k raises (stage 6: detect_plagiarism, whose
\* exception the stage swallows).
PRaise(k) ==
    /\ wpc = <<"call", k>>
    /\ calls' = Append(calls, StageCalls(k, TRUE)[1])
    /\ IF Absorbs(k)
       THEN /\ plagiarism' = "error"
            /\ PEmit(k, "completed", AfterStage(k))
            /\ UNCHANGED failedAt
       ELSE /\ failure' = "collaborator"
            /\ failedAt' = k
            /\ wpc' = <<"raised">>
            /\ UNCHANGED <<emitted, plagiarism, cbFaults>>
    /\ UNCHANGED <<override, domain, budget, result>>

PNoPages ==
    /\ wpc = <<"call", 0>>
    /\ calls' = calls \o StageCalls(0, TRUE)
    /\ failure' = "no_pages"
    /\ wpc' = <<"raised">>
    /\ UNCHANGED <<emitted, failedAt, plagiarism, override, domain, budget,
                   cbFaults, result>>

\* SpecPipe starts at the call of run_full_evaluation.
InitPipe ==
    /\ InitBroadcaster /\ InitLock
    /\ loopQ = <<>> /\ hpc = "waiting"
    /\ wpc = <<"start", 0>>
    /\ emitted = <<>> /\ failure = "none" /\ failedAt = -1 /\ plagiarism = "none"
    /\ override \in Overrides
    /\ calls = <<>> /\ domain = "unset" /\ budget = NoBudget
    /\ cbFaults = 0 /\ result = <<>>
    /\ InitIdleFn /\ InitIdleIndex

\* What SpecPipe leaves alone.
prest == <<bvars, lvars, loopQ, hpc, fvars, gvars>>

NextPipe ==
    \/ \E k \in Stages : PStageStart(k) /\ UNCHANGED prest
    \/ \E k \in Stages : PStage(k) /\ UNCHANGED prest
    \/ PCheck /\ UNCHANGED prest
    \/ PReject /\ UNCHANGED prest
    \/ \E in \in TierInputs : PBudget(in) /\ UNCHANGED prest
    \/ \E c \in BOOLEAN : PCompliance(c) /\ UNCHANGED prest
    \/ PFinal /\ UNCHANGED prest
    \/ \E k \in Stages : PRaise(k) /\ UNCHANGED prest
    \/ PNoPages /\ UNCHANGED prest

SpecPipe == InitPipe /\ [][NextPipe]_vars

(***************************************************************************)
(* compute_weighted_score (src/src/config/domain_weights.py)               *)
(*                                                                         *)
(* A score is an integer number of hundredths of a point (713 is 7.13).    *)
(* What the code computes by float division is kept as an exact fraction   *)
(* n / d of hundredths, so that a value with more than two decimals is     *)
(* told apart from its rounding.                                           *)
(***************************************************************************)
MaxCritique == 2

RECURSIVE GCD(_, _)
GCD(a, b) == IF b = 0 THEN a ELSE GCD(b, a % b)

\* The value n / d, in lowest terms: equal values are equal records.
Frac(n, d) == LET g == GCD(n, d) IN [n |-> n \div g, d |-> d \div g]

\* The weight table of one domain, in hundredths; the other tables have the
\* same six criteria.
DOMAIN_WEIGHTS ==
    [dom \in {"AI / Computer Science"} |->
        [Objectives |-> 15, Methodology |-> 25, Innovation |-> 30,
         Feasibility |-> 15, Budget |-> 10, Sustainability |-> 5]]

\* The criteria the scoring agent may return; "Team" has no weight in a table.
Criteria == {"Objectives", "Methodology", "Team"}

\* The scores a criterion may carry: in range, and one the model returned
\* above the scale.
ScoreGrid == {0, 600, 713, 800, 1200}

CritiqueGrid == {0, 700, 900}

BlendDomains == {"AI / Computer Science", "General"}

\* scores: a non-empty dict (run_full_evaluation rejects an empty one).
ScoreInputs ==
    UNION {[S -> ScoreGrid] : S \in (SUBSET Criteria) \ {{}}}

\* One entry of critique_domains: a dict, with or without the key "score".
CritiqueEntries ==
    {[has |-> TRUE, score |-> c] : c \in CritiqueGrid} \cup {[has |-> FALSE, score |-> 0]}

\* critique_domains: None (given = FALSE) or a list.
CritiqueInputs ==
    {[given |-> FALSE, list |-> <<>>]}
       \cup {[given |-> TRUE, list |-> l] :
                l \in UNION {[1 .. n -> CritiqueEntries] : n \in 0 .. MaxCritique}}

RECURSIVE SumOver(_, _)
SumOver(f, S) ==
    IF S = {} THEN 0
    ELSE LET x == CHOOSE y \in S : TRUE IN f[x] + SumOver(f, S \ {x})

\* weights: the domain's table, or equal weights 1 / len(scores); an equal
\* weight is counted as one unit, the unit cancels in weighted_sum / total_weight.
Weights(scores, dom) ==
    IF dom \notin DOMAIN DOMAIN_WEIGHTS
    THEN [k \in DOMAIN scores |-> 1]
    ELSE DOMAIN_WEIGHTS[dom]

compute_section_weighted_score(scores, dom) ==
    LET weights == Weights(scores, dom)
        used == DOMAIN scores \cap DOMAIN weights
        weighted_sum == SumOver([k \in used |-> scores[k] * weights[k]], used)
        total_weight == SumOver([k \in used |-> weights[k]], used)
    IN  IF total_weight > 0
        THEN Frac(weighted_sum, total_weight)
        ELSE IF DOMAIN scores # {}
             THEN Frac(SumOver(scores, DOMAIN scores), Cardinality(DOMAIN scores))
             ELSE Frac(0, 1)

compute_critique_average(critique_domains) ==
    IF ~critique_domains.given \/ critique_domains.list = <<>>
    THEN Frac(0, 1)
    ELSE LET l == critique_domains.list
             scored == {i \in DOMAIN l : l[i].has}
         IN  IF scored # {}
             THEN Frac(SumOver([i \in scored |-> l[i].score], scored), Cardinality(scored))
             ELSE Frac(0, 1)

SECTION_WEIGHT == 60

CRITIQUE_WEIGHT == 40

\* section_score * 0.60 + critique_score * 0.40
Combined(section_score, critique_score) ==
    Frac(SECTION_WEIGHT * section_score.n * critique_score.d
            + CRITIQUE_WEIGHT * critique_score.n * section_score.d,
         100 * section_score.d * critique_score.d)

compute_weighted_score_zero_is_absent(scores, dom, critique_domains) ==
    LET section_score == compute_section_weighted_score(scores, dom)
        critique_score == compute_critique_average(critique_domains)
    IN  IF critique_score.n = 0
        THEN section_score
        ELSE Combined(section_score, critique_score)

compute_weighted_score(scores, dom, critique_domains) ==
    LET section_score == compute_section_weighted_score(scores, dom)
    IN  IF ~critique_domains.given \/ critique_domains.list = <<>>
        THEN section_score
        ELSE Combined(section_score, compute_critique_average(critique_domains))

\* The call returns.
Blend ==
    /\ blend.pc = "called"
    /\ blend' = [blend EXCEPT
                    !.pc = "returned",
                    !.out = compute_weighted_score(blend.scores, blend.domain, blend.critique)]
    /\ UNCHANGED <<bvars, rvars, lvars, pvars, parse, gvars>>

InitBlend ==
    /\ InitBroadcaster /\ InitIdleRun /\ InitLock /\ InitIdlePipe
    /\ parse = <<>> /\ InitIdleIndex
    /\ blend \in [pc : {"called"}, scores : ScoreInputs, domain : BlendDomains,
                  critique : CritiqueInputs, out : {Frac(0, 1)}]

NextBlend == Blend

SpecBlend == InitBlend /\ [][NextBlend]_vars

(***************************************************************************)
(* The agents' parsing of the model's response                             *)
(* (src/src/agents/scoring.py, critique.py, summarizer.py,                 *)
(* budget_agent.py, decision.py)                                           *)
(*                                                                         *)
(* A text is a sequence of characters.  The punctuation of JSON is itself; *)
(* "s" stands for the letters of the word scores, "O" for Objectives, "T"  *)
(* for Timeline, "x" for any other word, "7" for a digit; Fence and        *)
(* FenceEnd are the Markdown wrappers around a code block.                 *)
(***************************************************************************)
MaxText == 3

LB == "{"
RB == "}"
LK == "["
RK == "]"
Q == "\""
COLON == ":"
COMMA == ","
\* The opening wrapper with its newline, and the closing wrapper.
Fence == "fence"
FenceEnd == "fence_end"

\* The values json.loads builds, and Python's None.
JNum(n) == [kind |-> "num", v |-> n]
JStr(cs) == [kind |-> "str", v |-> cs]
JArr(es) == [kind |-> "arr", v |-> es]
JObj(f) == [kind |-> "obj", v |-> f]
None == [kind |-> "none", v |-> 0]

\* The keys the agents look up or write.
KScores == <<"s">>
KObjectives == <<"O">>
KTimeline == <<"T">>
KOverallSummary == <<"o">>
KRawResponse == <<"r">>
KError == <<"e">>

At(t, i) == IF i \in DOMAIN t THEN t[i] ELSE "eof"

NoParse == [ok |-> FALSE, val |-> None, next |-> 0]

\* A string: a quote, any characters but a quote, a quote.
ParseString(t, i) ==
    IF At(t, i) # Q THEN NoParse
    ELSE LET ends == {j \in (i + 1) .. Len(t) : t[j] = Q}
         IN  IF ends = {} THEN NoParse
             ELSE LET j == CHOOSE e \in ends : \A k \in ends : e <= k
                  IN  [ok |-> TRUE, val |-> JStr(SubSeq(t, i + 1, j - 1)), next |-> j + 1]

\* A number: a run of digits, valued by its length.
ParseNumber(t, i) ==
    IF At(t, i) # "7" THEN NoParse
    ELSE LET runs == {j \in i .. Len(t) : \A k \in i .. j : t[k] = "7"}
             j == CHOOSE e \in runs : \A k \in runs : k <= e
         IN  [ok |-> TRUE, val |-> JNum(j - i + 1), next |-> j + 1]

RECURSIVE ParseValue(_, _)
RECURSIVE ParseMembers(_, _, _)
RECURSIVE ParseElements(_, _, _)

\* The members of an object after its "{"; a repeated key keeps the last value.
ParseMembers(t, i, acc) ==
    LET k == ParseString(t, i)
    IN  IF ~k.ok \/ At(t, k.next) # COLON THEN NoParse
        ELSE LET e == ParseValue(t, k.next + 1)
             IN  IF ~e.ok THEN NoParse
                 ELSE IF At(t, e.next) = COMMA
                      THEN ParseMembers(t, e.next + 1, Put(acc, k.val.v, e.val))
                 ELSE IF At(t, e.next) = RB
                      THEN [ok |-> TRUE, val |-> JObj(Put(acc, k.val.v, e.val)),
                            next |-> e.next + 1]
                 ELSE NoParse

\* The elements of an array after its "[".
ParseElements(t, i, acc) ==
    LET e == ParseValue(t, i)
    IN  IF ~e.ok THEN NoParse
        ELSE IF At(t, e.next) = COMMA
             THEN ParseElements(t, e.next + 1, Append(acc, e.val))
        ELSE IF At(t, e.next) = RK
             THEN [ok |-> TRUE, val |-> JArr(Append(acc, e.val)), next |-> e.next + 1]
        ELSE NoParse

ParseValue(t, i) ==
    CASE At(t, i) = LB ->
            IF At(t, i + 1) = RB
            THEN [ok |-> TRUE, val |-> JObj(<<>>), next |-> i + 2]
            ELSE ParseMembers(t, i + 1, <<>>)
      [] At(t, i) = LK ->
            IF At(t, i + 1) = RK
            THEN [ok |-> TRUE, val |-> JArr(<<>>), next |-> i + 2]
            ELSE ParseElements(t, i + 1, <<>>)
      [] At(t, i) = Q -> ParseString(t, i)
      [] At(t, i) = "7" -> ParseNumber(t, i)
      [] OTHER -> NoParse

\* What a block of code ends with: a value, or an exception.
Returns(v) == [exc |-> "none", val |-> v]
Raises(e) == [exc |-> e, val |-> None]

\* json.loads: the whole text is one value.
json_loads(text) ==
    LET r == ParseValue(text, 1)
    IN  IF r.ok /\ r.next = Len(text) + 1
        THEN Returns(r.val)
        ELSE Raises("JSONDecodeError")

\* re.sub(r"^```(?:json)?\n|```$", "", text.strip(), flags=re.MULTILINE)
strip_codeblock(text) ==
    LET body == IF At(text, 1) = Fence THEN Tail(text) ELSE text
    IN  IF At(body, Len(body)) = FenceEnd THEN SubSeq(body, 1, Len(body) - 1) ELSE body

Repeat(c, n) == [i \in 1 .. n |-> c]

\* A repair that closes every opener, whatever closers the text has.
repair_json_every_opener(text) ==
    LET quoted == IF Occurrences(text, Q) % 2 # 0 THEN Append(text, Q) ELSE text
    IN  quoted \o Repeat(RB, Occurrences(quoted, LB)) \o Repeat(RK, Occurrences(quoted, LK))

repair_json(text) ==
    LET quoted == IF Occurrences(text, Q) % 2 # 0 THEN Append(text, Q) ELSE text
        open_braces == Occurrences(quoted, LB)
        close_braces == Occurrences(quoted, RB)
        braced == IF open_braces > close_braces
                  THEN quoted \o Repeat(RB, open_braces - close_braces)
                  ELSE quoted
        open_brackets == Occurrences(braced, LK)
        close_brackets == Occurrences(braced, RK)
    IN  IF open_brackets > close_brackets
        THEN braced \o Repeat(RK, open_brackets - close_brackets)
        ELSE braced

\* Python's `key in value`: a key of a dict, an element of a list, a
\* substring of a str; a number is not iterable.
Contains(value, key) ==
    CASE value.kind = "obj" -> Returns(key \in DOMAIN value.v)
      [] value.kind = "arr" ->
            Returns(\E i \in DOMAIN value.v :
                       value.v[i].kind = "str" /\ value.v[i].v = key)
      [] value.kind = "str" ->
            Returns(\E i \in 1 .. (Len(value.v) - Len(key) + 1) :
                       SubSeq(value.v, i, i + Len(key) - 1) = key)
      [] OTHER -> Raises("TypeError")

\* section_names of the first attempt, and the shorter list of the second.
SectionNames == {KObjectives, KTimeline}
SectionNamesRepaired == {KObjectives}

\* {"scores": scores_json, "overall_summary": scores_json.get("overall_summary", "")}
Wrapped(scores_json) ==
    IF scores_json.kind # "obj" THEN Raises("AttributeError")
    ELSE Returns(JObj(Put(Put(<<>>, KScores, scores_json), KOverallSummary,
                          Get(scores_json.v, KOverallSummary, JStr(<<>>)))))

\* The zero scores run_grant_scoring returns as a last resort.
ScoringFallback(cleaned_response) ==
    JObj(Put(Put(<<>>, KScores, JObj(Put(<<>>, KObjectives, JNum(0)))),
             KRawResponse, JStr(cleaned_response)))

\* The try block of run_grant_scoring.
ScoringFirst(cleaned_response) ==
    LET loaded == json_loads(cleaned_response)
        scores_json == loaded.val
    IN  IF loaded.exc # "none" THEN loaded
        ELSE IF scores_json.kind # "obj" THEN Raises("ValueError")
        ELSE IF KScores \in DOMAIN scores_json.v THEN Returns(scores_json)
        ELSE IF \E section \in SectionNames : section \in DOMAIN scores_json.v
             THEN Wrapped(scores_json)
        ELSE Raises("ValueError")

\* The try block of its except clause.
ScoringRepair(cleaned_response) ==
    LET loaded == json_loads(repair_json(cleaned_response))
        scores_json == loaded.val
        has == Contains(scores_json, KScores)
    IN  IF loaded.exc # "none" THEN loaded
        ELSE IF has.exc # "none" THEN has
        ELSE IF has.val THEN Returns(scores_json)
        ELSE IF \E section \in SectionNamesRepaired : Contains(scores_json, section).val
             THEN Wrapped(scores_json)
        ELSE Raises("ValueError")

run_grant_scoring_unwrapped(response) ==
    LET cleaned_response == strip_codeblock(response)
        loaded == json_loads(cleaned_response)
    IN  IF loaded.exc = "none" THEN loaded
        ELSE Returns(ScoringFallback(cleaned_response))

run_grant_scoring(response) ==
    LET cleaned_response == strip_codeblock(response)
        first == ScoringFirst(cleaned_response)
    IN  IF first.exc \in {"JSONDecodeError", "ValueError"}
        THEN LET second == ScoringRepair(cleaned_response)
             IN  IF second.exc # "none"
                 THEN Returns(ScoringFallback(cleaned_response))
                 ELSE second
        ELSE first

\* The other agents, and what each returns when json.loads raises.
SimpleAgents == {"run_summarizer_extended", "run_grant_critique",
                 "run_budget_agent", "run_final_decision_agent"}

AgentFallback(agent, response) ==
    LET cleaned == strip_codeblock(response)
    IN  CASE agent = "run_summarizer_extended" ->
                JObj(Put(<<>>, KRawResponse, JStr(response)))
          [] agent = "run_grant_critique" ->
                JObj(Put(Put(<<>>, KError, JStr(<<"x">>)), KRawResponse, JStr(cleaned)))
          [] OTHER -> JObj(Put(<<>>, KRawResponse, JStr(cleaned)))

run_agent(agent, response) ==
    LET loaded == json_loads(strip_codeblock(response))
    IN  IF loaded.exc = "JSONDecodeError"
        THEN Returns(AgentFallback(agent, response))
        ELSE loaded

\* run_full_evaluation after the scoring agent returned: what the
\* statements up to the check of the scores do with the value.
AfterScoring(scores) ==
    IF scores.kind # "obj" THEN "AttributeError"
    ELSE IF Get(scores.v, KScores, JObj(<<>>)).kind # "obj" THEN "AttributeError"
    ELSE IF KScores \notin DOMAIN scores.v
         THEN IF KObjectives \in DOMAIN scores.v THEN "continues" ELSE "KeyError"
    ELSE IF DOMAIN scores.v[KScores].v = {} THEN "ValueError"
    ELSE "continues"

\* The response of the model: every text of up to MaxText characters, the
\* documents below with all their truncations, and a fenced document.
Alphabet == {LB, RB, LK, RK, Q, COLON, "s", "7"}

Documents ==
    { <<LB, Q, "s", Q, COLON, LB, Q, "O", Q, COLON, "7", RB, RB>>,
      <<LB, Q, "O", Q, COLON, "7", RB>>,
      <<LB, Q, "T", Q, COLON, "7", RB>>,
      <<LB, Q, "x", Q, COLON, "7", RB>>,
      <<LB, Q, "s", Q, COLON, LK, RK, RB>>,
      <<LK, Q, "s", Q, RK>>,
      <<Q, "O", Q>> }

Responses ==
    UNION {[1 .. n -> Alphabet] : n \in 0 .. MaxText}
       \cup UNION {{SubSeq(d, 1, n) : n \in 0 .. Len(d)} : d \in Documents}
       \cup {<<Fence>> \o d \o <<FenceEnd>> : d \in Documents}

\* run_grant_scoring returns.
ParseScoring ==
    /\ parse.pc = "called" /\ parse.agent = "run_grant_scoring"
    /\ parse' = [parse EXCEPT !.pc = "returned",
                              !.out = run_grant_scoring(parse.response)]
    /\ UNCHANGED <<bvars, rvars, lvars, pvars, blend, gvars>>

\* One of the other agents returns.
ParseAgent ==
    /\ parse.pc = "called" /\ parse.agent \in SimpleAgents
    /\ parse' = [parse EXCEPT !.pc = "returned",
                              !.out = run_agent(parse.agent, parse.response)]
    /\ UNCHANGED <<bvars, rvars, lvars, pvars, blend, gvars>>

InitParse ==
    /\ InitBroadcaster /\ InitIdleRun /\ InitLock /\ InitIdlePipe
    /\ blend = <<>> /\ InitIdleIndex
    /\ parse \in [pc : {"called"}, agent : SimpleAgents \cup {"run_grant_scoring"},
                  response : Responses, out : {Returns(None)}]

NextParse == ParseScoring \/ ParseAgent

SpecParse == InitParse /\ [][NextParse]_vars

(***************************************************************************)
(* gemini_llm (src/src/llm_wrapper.py): the retry loop around              *)
(* model.generate_content                                                  *)
(***************************************************************************)
max_retries == 3

\* What str(e) may contain; "none": none of the markers.
Markers == {"500", "Internal", "ResourceExhausted", "none"}

\* How one model.generate_content(prompt) ends: a response, a TypeError, or
\* another exception, each exception with its message.
Outcomes ==
    {[kind |-> "response", msg |-> "none"]}
       \cup [kind : {"TypeError", "Exception"}, msg : Markers]

is_retryable(error_msg) == error_msg \in {"500", "Internal", "ResourceExhausted"}

\* The call in the try block, with the except clauses that follow it.
GenerateContent(out) ==
    /\ llm.pc = "try"
    /\ llm' =
         LET called == [llm EXCEPT !.invocations = @ + 1, !.history = Append(@, out)]
         IN  CASE out.kind = "response" -> [called EXCEPT !.pc = "returned"]
               [] out.kind = "TypeError" -> [called EXCEPT !.pc = "except TypeError"]
               [] OTHER ->
                    IF is_retryable(out.msg) /\ llm.attempt < max_retries - 1
                    THEN [called EXCEPT !.waits = Append(@, llm.retry_delay),
                                        !.retry_delay = @ * 2,
                                        !.attempt = @ + 1]
                    ELSE [called EXCEPT !.pc = "raised"]
    /\ UNCHANGED <<bvars, rvars, lvars, pvars, fvars, evals, vstores>>

\* The call inside `except TypeError`: what it raises is not caught.
GenerateAgain(out) ==
    /\ llm.pc = "except TypeError"
    /\ llm' = [llm EXCEPT !.invocations = @ + 1,
                          !.history = Append(@, out),
                          !.pc = IF out.kind = "response" THEN "returned" ELSE "raised"]
    /\ UNCHANGED <<bvars, rvars, lvars, pvars, fvars, evals, vstores>>

InitLlm ==
    /\ InitBroadcaster /\ InitIdleRun /\ InitLock /\ InitIdlePipe /\ InitIdleFn
    /\ evals = <<>> /\ vstores = <<>>
    /\ llm = [pc |-> "try", attempt |-> 0, retry_delay |-> 2, invocations |-> 0,
              waits |-> <<>>, history |-> <<>>]

NextLlm ==
    \/ \E out \in Outcomes : GenerateContent(out)
    \/ \E out \in Outcomes : GenerateAgain(out)

SpecLlm == InitLlm /\ [][NextLlm]_vars

(***************************************************************************)
(* The retrieval index of a run (src/src/vectorstore.py,                   *)
(* src/src/agents/vectorstore_agent.py, run_full_evaluation)               *)
(*                                                                         *)
(* Several run_full_evaluation calls execute in worker threads of one      *)
(* process.  Chroma's in-memory client belongs to the process: a           *)
(* collection is found by its name, and from_documents adds the documents  *)
(* to the collection of that name, creating it when it does not exist.     *)
(***************************************************************************)
NumRuns == 2

RunIds == 1 .. NumRuns

\* The values uuid.uuid4().hex[:16] may take.
Names == 1 .. (NumRuns + 1)

\* vs before vectorstore_agent returned, and after `del vs`.
NoStore == 0

\* The chunks of the document of run r.
Pages(r) == {<<"page of", r>>}

DefaultCollectionName(used) == {1}

\* unique_collection_name: a uuid4 is taken to differ from those drawn before.
unique_collection_name(used) == Names \ used

\* Chroma.from_documents(documents, collection_name)
create_vectorstore(docs, name) ==
    Put(vstores, name, Get(vstores, name, {}) \cup docs)

\* vs["ask"](query): the retriever returns chunks of the run's collection.
Ask(r) == vstores[evals[r].vs]

EvalStep(r, from, to) ==
    /\ evals[r].pc = from
    /\ evals' = [evals EXCEPT ![r].pc = to]

\* input_agent returned pages.
Extract(r) ==
    /\ EvalStep(r, "start", "pages")
    /\ UNCHANGED <<bvars, rvars, lvars, pvars, fvars, llm, vstores>>

\* input_agent returned nothing: ValueError("Document extraction failed.")
ExtractNothing(r) ==
    /\ EvalStep(r, "start", "raised")
    /\ UNCHANGED <<bvars, rvars, lvars, pvars, fvars, llm, vstores>>

\* vs = vectorstore_agent(pages, persist_dir=None)
BuildIndex(r) ==
    /\ evals[r].pc = "pages"
    /\ \E name \in unique_collection_name(DOMAIN vstores) :
          /\ vstores' = create_vectorstore(Pages(r), name)
          /\ evals' = [evals EXCEPT ![r].pc = "indexed", ![r].vs = name, ![r].built = TRUE]
    /\ UNCHANGED <<bvars, rvars, lvars, pvars, fvars, llm>>

\* run_summarizer_extended(vs["ask"], domain) queries the index.
Summarize(r) ==
    /\ evals[r].pc = "indexed"
    /\ evals' = [evals EXCEPT ![r].pc = "summarized", ![r].got = @ \cup Ask(r)]
    /\ UNCHANGED <<bvars, rvars, lvars, pvars, fvars, llm, vstores>>

\* Scoring, critique and the weighted score: no retrieval.
ScoreAndCritique(r) ==
    /\ EvalStep(r, "summarized", "critiqued")
    /\ UNCHANGED <<bvars, rvars, lvars, pvars, fvars, llm, vstores>>

\* Budget strategy 3 queries the index.
BudgetQuery(r) ==
    /\ evals[r].pc = "critiqued"
    /\ evals' = [evals EXCEPT ![r].pc = "budgeted", ![r].got = @ \cup Ask(r)]
    /\ UNCHANGED <<bvars, rvars, lvars, pvars, fvars, llm, vstores>>

\* Compliance, decision, then `del vs["vectorstore"]; del vs` and return.
CleanupAndReturn(r) ==
    /\ evals[r].pc = "budgeted"
    /\ evals' = [evals EXCEPT ![r].pc = "returned", ![r].vs = NoStore, ![r].released = TRUE]
    /\ UNCHANGED <<bvars, rvars, lvars, pvars, fvars, llm, vstores>>

\* A collaborator of a stage after the index was built raises: the
\* exception leaves run_full_evaluation, no statement of it runs any more.
StageRaises(r) ==
    /\ evals[r].pc \in {"indexed", "summarized", "critiqued", "budgeted"}
    /\ evals' = [evals EXCEPT ![r].pc = "raised"]
    /\ UNCHANGED <<bvars, rvars, lvars, pvars, fvars, llm, vstores>>

InitIndex ==
    /\ InitBroadcaster /\ InitIdleRun /\ InitLock /\ InitIdlePipe /\ InitIdleFn
    /\ llm = <<>>
    /\ vstores = <<>>
    /\ evals = [r \in RunIds |->
                  [pc |-> "start", vs |-> NoStore, got |-> {}, built |-> FALSE,
                   released |-> FALSE]]

NextIndex ==
    \/ \E r \in RunIds : Extract(r)
    \/ \E r \in RunIds : ExtractNothing(r)
    \/ \E r \in RunIds : BuildIndex(r)
    \/ \E r \in RunIds : Summarize(r)
    \/ \E r \in RunIds : ScoreAndCritique(r)
    \/ \E r \in RunIds : BudgetQuery(r)
    \/ \E r \in RunIds : CleanupAndReturn(r)
    \/ \E r \in RunIds : StageRaises(r)

SpecIndex == InitIndex /\ [][NextIndex]_vars

(***************************************************************************)
(* The broadcaster's buffer                                                *)
(***************************************************************************)
\* The messages of seq that are in set S, in the order of seq.
Restrict(seq, S) == SelectSeq(seq, LAMBDA m : m \in S)

Increasing(seq) == \A i, j \in DOMAIN seq : i < j => seq[i].id < seq[j].id

\* How many places hold message m of session s for a subscriber: the buffer,
\* the list a connect() popped, or close_session's rubbish.
Holders(m, s) ==
    Occurrences(Get(pending, s, <<>>), m)
    + Cardinality({o \in Observers : m \in Range(conn[o].queue)})
    + (IF m \in discarded THEN 1 ELSE 0)

\* A message published while its session had no observer is held in exactly
\* one place, of its own session, and reaches nobody but the subscriber that
\* popped it.
BufferedOnce ==
    \A t \in sends : t.pc = "buffered" =>
        /\ Holders(t.msg, t.session) = 1
        /\ \A s \in DOMAIN pending : s # t.session => t.msg \notin Range(pending[s])
        /\ \A o \in Observers :
             /\ Occurrences(conn[o].queue, t.msg) <= 1
             /\ t.msg \in Range(conn[o].queue) => conn[o].session = t.session
             /\ Occurrences(received[o], t.msg)
                  <= Occurrences(conn[o].queue, t.msg)

\* C1: events published while the session had no observer go, all of them,
\* in publish order and each exactly once, to the first observer that
\* subscribes afterwards: a session with an observer has an empty buffer, every
\* buffered message is held exactly once (the buffer or one subscriber's
\* flush), the buffer and every flush list are in publish order, and a
\* subscriber whose flush ended without a failed send was handed exactly its
\* flush list, in order.
C1_FlushOnSubscribe ==
    /\ \A s \in DOMAIN pending : pending[s] # <<>> => Get(connections, s, {}) = {}
    /\ BufferedOnce
    /\ \A s \in DOMAIN pending : Increasing(pending[s])
    /\ \A o \in Observers :
         /\ Increasing(conn[o].queue)
         /\ (conn[o].pc = "serving" /\ ~conn[o].lost) =>
               Restrict(received[o], Range(conn[o].queue)) = conn[o].queue

\* Two buffered events went to the first subscriber, none to the second.
C1_Witness ==
    \E o, o2 \in Observers :
        /\ o # o2
        /\ conn[o].pc = "serving" /\ conn[o2].pc = "serving"
        /\ conn[o].session = conn[o2].session
        /\ Len(conn[o].queue) = 2
        /\ received[o] = conn[o].queue
        /\ received[o2] = <<>>
        /\ pending = EmptyMap

\* C2: a send that found observers and returned has handed the message, once,
\* to every observer of its snapshot whose send_json did not fail, and has not
\* buffered it.
C2_DeliveredToAll ==
    \A t \in sends : (t.pc = "done" /\ t.snap # {}) =>
        /\ \A o \in t.snap \ t.failed : Occurrences(received[o], t.msg) = 1
        /\ Holders(t.msg, t.session) = 0

\* A message was delivered to two observers of one session.
C2_Witness ==
    \E t \in sends :
        /\ t.pc = "done" /\ Cardinality(t.snap) = 2 /\ t.failed = {}
        /\ \A o \in t.snap : t.msg \in Range(received[o])

\* C3: in publish, a failing observer does not keep the message from the
\* others, is removed from the session's observers, and publish never raises,
\* whatever the failure.
C3_FailureIsolated ==
    \A t \in sends :
        /\ t.pc # "raised"
        /\ t.pc \in {"done", "raised"} =>
              \A o \in t.snap : ws[o] = "open" => t.msg \in Range(received[o])
        /\ t.pc = "done" =>
              \A o \in t.failed : o \notin Get(connections, t.session, {})

\* What disconnect(s, o) may change.
DisconnectFrame(s, o) ==
    /\ pending' = pending
    /\ Get(connections', s, {}) = Get(connections, s, {}) \ {o}
    /\ \A s2 \in Sessions \ {s} : Get(connections', s2, {}) = Get(connections, s2, {})
    /\ o \notin Get(connections, s, {}) => connections' = connections
    /\ <<ws, received, conn, sends, closes, discarded>>'
         = <<ws, received, conn, sends, closes, discarded>>

\* C9: unsubscribe removes only that observer and leaves the session's other
\* observers, the other sessions and the buffer as they were (nothing at all
\* changes for an observer that is not registered); a message published when
\* the session has no observer left is buffered and kept for a subscriber.
C9_UnsubscribeFrame ==
    /\ [][\A s \in Sessions, o \in Observers : Disconnect(s, o) => DisconnectFrame(s, o)]_vars
    /\ [](\A t \in sends : t.snap = {} => t.pc = "buffered")
    /\ []BufferedOnce

\* One observer got the first message and unsubscribed (its socket is still
\* open); the second message was buffered and flushed to the next subscriber.
C9_Witness ==
    \E o, o2 \in Observers :
        /\ o # o2 /\ conn[o].session = conn[o2].session
        /\ conn[o].pc = "serving" /\ ws[o] = "open"
        /\ o \notin Get(connections, conn[o].session, {})
        /\ closes[conn[o].session].pc = "idle"
        /\ Len(received[o]) = 1
        /\ conn[o2].pc = "serving" /\ Len(conn[o2].queue) = 1
        /\ received[o2] = conn[o2].queue
        /\ received[o2] # received[o]

\* C10: once close has returned, the observers it found are not registered,
\* cannot be sent to and have received nothing since, and the messages it
\* discarded are in no buffer and reach no subscriber.
C10_CloseDisconnects ==
    /\ \A s \in Sessions : closes[s].pc = "done" =>
          \A o \in closes[s].snap :
              /\ o \notin Get(connections, s, {})
              /\ ws[o] # "open"
              /\ Len(received[o]) = closes[s].seen[o]
    /\ \A m \in discarded :
          /\ \A s \in DOMAIN pending : m \notin Range(pending[s])
          /\ \A o \in Observers : m \notin Range(received[o]) /\ m \notin Range(conn[o].queue)

\* A close that found an observer, discarded a message published while it
\* was closing, and a later subscriber of the session that got nothing.
C10_Witness ==
    \E s \in Sessions :
        /\ closes[s].pc = "done" /\ closes[s].snap # {}
        /\ discarded # {}
        /\ \E o \in Observers \ closes[s].snap :
              conn[o].session = s /\ conn[o].pc = "serving" /\ received[o] = <<>>

(***************************************************************************)
(* The evaluation run                                                      *)
(***************************************************************************)
\* A collaborator raised in stage k (the compliance stage records it in
\* plagiarism_result).
RaisedIn(k) == failedAt = k \/ (k = 6 /\ plagiarism = "error")

\* C4 as stated: a collaborator that raises in stage k, for every k, makes the
\* run emit exactly one `errored` event for k, nothing for a later ordinal,
\* and raise.
C4_ErroredOnFailure ==
    \A k \in Stages : RaisedIn(k) =>
        /\ wpc = <<"raised">>
        /\ Cardinality({i \in DOMAIN emitted :
                           emitted[i].stage_index = k /\ emitted[i].status = "errored"}) = 1
        /\ \A i \in DOMAIN emitted : emitted[i].stage_index <= k

\* C4 amended: a collaborator that raises in a stage k other than the
\* compliance stage aborts the run without any `errored` event: the last
\* event emitted is the one `started` of k, nothing is emitted for a later
\* ordinal, and the run raises.  A failure of the plagiarism detector in the
\* compliance stage is caught: the stage is emitted `completed` and the run
\* goes on.
C4_AbortWithoutErrored ==
    /\ \A i \in DOMAIN emitted : emitted[i].status \in {"started", "completed"}
    /\ failedAt # 6
    /\ \A k \in Stages : failedAt = k =>
          /\ wpc = <<"raised">>
          /\ failure \in {"collaborator", "quota"}
          /\ emitted[Len(emitted)] = StagePayload(k, "started")
          /\ Occurrences(emitted, StagePayload(k, "started")) = 1
          /\ \A i \in DOMAIN emitted : emitted[i].stage_index <= k
    /\ plagiarism = "error" =>
          /\ wpc \notin {<<"start", 6>>, <<"call", 6>>}
          /\ Occurrences(emitted, StagePayload(6, "completed")) = 1
          /\ wpc = <<"raised">> => failedAt = 7

\* The plagiarism detector failed and was absorbed; the decision agent of the
\* last stage raised and aborted the run.
C4_Witness == failedAt = 7 /\ plagiarism = "error" /\ wpc = <<"raised">>

Published(ev) == {t \in sends : t.msg.event = ev}

\* C5: a run with a session id ends in exactly one terminal event: `error`
\* and no `complete` when it failed, `complete` and no `error` when it
\* succeeded.
C5_OneTerminalEvent ==
    /\ hpc = "returned" =>
          Cardinality(Published("complete")) = 1 /\ Published("error") = {}
    /\ hpc = "failed" =>
          Cardinality(Published("error")) = 1 /\ Published("complete") = {}

\* C6: when the run has ended, close has been called for its session: the
\* session has no observer and no buffer.
C6_ClosedAtRunEnd ==
    (hpc \in {"returned", "failed"} /\ loopQ = <<>>) =>
        /\ closes[RunSession].pc = "done"
        /\ Get(connections, RunSession, {}) = {}
        /\ RunSession \notin DOMAIN pending

\* The stage events an observer received, in the order it received them.
StageEvents(o) ==
    SelectSeq(received[o], LAMBDA m : m.event = "status" /\ m.stage_index >= 0)

\* C7: an observer receives the stage events of a run with non-decreasing
\* progress, and never a stage's `started` after the `completed` of that
\* stage or of a later one.
C7_DeliveryOrder ==
    \A o \in Observers :
        \A i, j \in DOMAIN StageEvents(o) : i < j =>
            /\ StageEvents(o)[i].progress <= StageEvents(o)[j].progress
            /\ ~ /\ StageEvents(o)[i].status = "completed"
                 /\ StageEvents(o)[j].status = "started"
                 /\ StageEvents(o)[j].stage_index <= StageEvents(o)[i].stage_index

\* C8: the events passed to the callback are, in order, `started` then
\* `completed` of stage 0, of stage 1, ...: what was emitted so far is a
\* prefix of that sequence, and a run that returned emitted all of it, ending
\* with `completed` of the last stage.
C8_EmitOrder ==
    /\ Len(emitted) <= 2 * TotalStages
    /\ \A i \in DOMAIN emitted :
          /\ emitted[i].stage_index = (i - 1) \div 2
          /\ emitted[i].status = IF i % 2 = 1 THEN "started" ELSE "completed"
    /\ wpc = <<"returned">> =>
          /\ Len(emitted) = 2 * TotalStages
          /\ emitted[Len(emitted)] = StagePayload(TotalStages - 1, "completed")

\* A run that went through all stages.
C8_Witness == wpc = <<"returned">> /\ Len(emitted) = 2 * TotalStages /\ hpc = "returned"

(***************************************************************************)
(* The broadcaster's lock                                                  *)
(***************************************************************************)
\* Task t is about to read or write _connections / _pending_messages.
Touches(t) == tasks[t].pc \in {"crit1", "crit2"}

\* Task t is about to await, or is inside, a call on a websocket.
InIO(t) == tasks[t].pc \in {"accept", "flush", "deliver", "closing"}

\* C11: in every interleaving of connect, disconnect, send and close_session,
\* a task that reads or writes the observer sets or the buffers holds the
\* lock, the holder of the lock is never in a call on a websocket, every
\* change of the two dictionaries is made by the holder, which then releases,
\* and send delivers to the snapshot it took under the lock.
C11_LockDiscipline ==
    /\ [](\A t \in Tasks :
             /\ Touches(t) => lock = t
             /\ InIO(t) => lock # t
             /\ lock = t => Touches(t)
             /\ tasks[t].pc = "deliver" => (tasks[t].todo # {} /\ tasks[t].todo \subseteq tasks[t].snap))
    /\ [][(connections' # connections \/ pending' # pending) =>
             (lock \in Tasks /\ Touches(lock) /\ lock' = Unlocked)]_vars
    /\ [][\A o \in Observers : received'[o] # received[o] =>
             \E t \in Tasks : InIO(t) /\ lock # t /\ tasks'[t] # tasks[t]
                              /\ (tasks[t].op = "send" => o \in tasks[t].snap)]_vars

\* A send is in its delivery, to the snapshot it took, while another task holds
\* the lock to take the snapshot's observer out of the session.
C11_Witness ==
    \E t, u \in Tasks :
        /\ lock = t /\ Touches(t) /\ tasks[t].op \in {"disconnect", "close"}
        /\ tasks[u].op = "send" /\ tasks[u].pc = "deliver"
        /\ tasks[u].session = tasks[t].session
        /\ tasks[u].snap = Get(connections, tasks[u].session, {})

(***************************************************************************)
(* The stages of the pipeline                                              *)
(***************************************************************************)
\* The collaborators of a whole run, in order, for a run with or without a
\* usable override, budget information and plagiarism check.
Plan(withOverride, withBudget, withPlagiarism) ==
    <<"input_agent", "vectorstore_agent">>
    \o (IF withOverride THEN <<>> ELSE <<"classify_domain">>)
    \o <<"run_summarizer_extended", "run_grant_scoring", "run_grant_critique",
         "build_critique_domain_scores", "compute_weighted_score", "vs.ask">>
    \o (IF withBudget THEN <<"run_budget_agent">> ELSE <<>>)
    \o (IF withPlagiarism THEN <<"detect_plagiarism">> ELSE <<>>)
    \o <<"run_final_decision_agent", "format_evaluation_response">>

IsPrefix(s, q) == Len(s) <= Len(q) /\ \A i \in DOMAIN s : s[i] = q[i]

CallNames == [i \in DOMAIN calls |-> calls[i].fn]

\* How many events emit_stage was called for when the run is at position pc.
EmitsBefore(pc) ==
    CASE pc[1] = "start" -> 2 * pc[2]
      [] pc[1] = "call" -> 2 * pc[2] + 1
      [] pc[1] = "check" -> 10
      [] OTHER -> 2 * TotalStages

\* C12: a callback that raises never aborts or alters the run: the run never
\* ends on the callback's exception, every stage event up to the run's
\* position was passed to the callback, the collaborators called are those of
\* a run with a quiet callback, in the same order, and the result is the one
\* the collaborators' answers determine.
C12_CallbackNeverAborts ==
    /\ failure # "callback"
    /\ wpc # <<"raised">> => Len(emitted) = EmitsBefore(wpc)
    /\ \E a, b, c \in BOOLEAN :
          /\ IsPrefix(CallNames, Plan(a, b, c))
          /\ wpc = <<"returned">> => CallNames = Plan(a, b, c)
    /\ wpc = <<"returned">> =>
          result = <<[domain |-> DomainOf(override), budget_analysis |-> budget.eval[1],
                      plagiarism_check |-> plagiarism]>>

\* The callback raised MaxCbFaults times and the run returned its result.
C12_Witness == wpc = <<"returned">> /\ cbFaults = MaxCbFaults /\ result # <<>>

\* C13: a final budget text that has neither the minimum length nor a budget
\* word (the empty text among them) gives the fixed evaluation: total 0, no
\* breakdown, one flag, of type "warning"; run_budget_agent is not called at
\* any point of the run, and the run goes on to the compliance stage.
C13_BudgetShortCircuit ==
    (budget.tiers # <<>> /\ TextLen(budget.text) <= 50 /\ ~HasKw(budget.text)) =>
        /\ budget.eval[1].totalBudget = 0
        /\ budget.eval[1].breakdown = <<>>
        /\ Len(budget.eval[1].flags) = 1
        /\ budget.eval[1].flags[1].type = "warning"
        /\ \A i \in DOMAIN calls : calls[i].fn # "run_budget_agent"
        /\ failedAt # 5
        /\ Len(emitted) >= EmitsBefore(<<"start", 6>>)
        /\ emitted[EmitsBefore(<<"start", 6>>)] = StagePayload(5, "completed")
        /\ wpc \in {<<"start", 6>>, <<"call", 6>>, <<"start", 7>>, <<"call", 7>>,
                    <<"returned">>} \/ failedAt = 7

\* A run whose budget text was the empty string returned its result.
C13_Witness ==
    /\ budget.tiers # <<>> /\ budget.text = <<>>
    /\ wpc = <<"returned">> /\ result[1].budget_analysis = BudgetFallback

\* The parts of a text that are no separators, in order.
Parts(text) == SelectSeq(text, LAMBDA g : g.src # "separator")

\* The texts the strategies that ran yielded, the empty ones left out.
Yields(in) ==
    SelectSeq(<<in.t1, in.t2, in.t3>>
              \o (IF \E i \in DOMAIN TiersRun(in) : TiersRun(in)[i].tier = 4
                  THEN <<in.t4>> ELSE <<>>),
              LAMBDA g : g.len > 0)

\* C14: in the budget stage a strategy after the first runs only when the
\* text gathered so far is under the length threshold, and the text of every
\* strategy that yielded something is in the final text, in the order of the
\* strategies, set off from the text before it by a separator: none replaces
\* an earlier one.
C14_TiersAppended ==
    budget.tiers # <<>> =>
        /\ \A i \in DOMAIN TiersRun(budget.tiers[1]) :
              TiersRun(budget.tiers[1])[i].tier > 1 =>
                  TiersRun(budget.tiers[1])[i].before < 200
        /\ Parts(budget.text) = Yields(budget.tiers[1])
        /\ \A i \in DOMAIN budget.text :
              (i > 1 /\ budget.text[i].src # "separator") =>
                  budget.text[i - 1].src = "separator"

\* C15: with a domain override supplied, classify_domain is never called, the
\* domain stage completes with the override as the domain, every later
\* collaborator that takes a domain is passed the override, and the result
\* carries it.
C15_OverrideSkipsClassifier ==
    override \notin {"none", ""} =>
        /\ \A i \in DOMAIN calls :
              /\ calls[i].fn # "classify_domain"
              /\ calls[i].domain \in {"-", override}
              /\ calls[i].fn \in {"run_summarizer_extended", "run_grant_scoring",
                                  "run_grant_critique", "build_critique_domain_scores",
                                  "compute_weighted_score", "run_budget_agent",
                                  "run_final_decision_agent", "format_evaluation_response"}
                    => calls[i].domain = override
        /\ Len(emitted) >= 4 =>
              /\ emitted[4] = StagePayload(1, "completed")
              /\ domain = override
              /\ CallNames[2] = "vectorstore_agent" /\ CallNames[1] = "input_agent"
        /\ wpc = <<"returned">> => result[1].domain = override

\* A run with the override "AI / Computer Science" returned it as its domain.
C15_Witness ==
    /\ override = "AI / Computer Science"
    /\ wpc = <<"returned">> /\ result[1].domain = "AI / Computer Science"
    /\ \E i \in DOMAIN calls : calls[i] = Collab("run_budget_agent", "AI / Computer Science")

\* C16: the `started` event of stage k carries progress floor(k * 100 / 8),
\* its `completed` event floor((k + 1) * 100 / 8); every progress is an
\* integer in 0..100 and the `completed` of the last stage carries 100.
C16_ProgressValues ==
    /\ \A i \in DOMAIN emitted :
          /\ emitted[i].stage_index \in 0 .. 7
          /\ emitted[i].status = "started" =>
                emitted[i].progress = (emitted[i].stage_index * 100) \div 8
          /\ emitted[i].status = "completed" =>
                emitted[i].progress = ((emitted[i].stage_index + 1) * 100) \div 8
          /\ emitted[i].progress \in 0 .. 100
    /\ wpc = <<"returned">> =>
          /\ emitted[Len(emitted)].stage_index = 7
          /\ emitted[Len(emitted)].status = "completed"
          /\ emitted[Len(emitted)].progress = 100

\* A run emitted all its events: 0 and 12 for the first stage, 87 and 100
\* for the last.
C16_Witness ==
    /\ wpc = <<"returned">> /\ Len(emitted) = 16
    /\ emitted[1].progress = 0 /\ emitted[2].progress = 12
    /\ emitted[15].progress = 87 /\ emitted[16].progress = 100

(***************************************************************************)
(* The blended score                                                       *)
(***************************************************************************)
FracEq(a, b) == a.n * b.d = b.n * a.d

\* v brought into [0, 10].
Clamped(v) ==
    IF v.n < 0 THEN Frac(0, 1)
    ELSE IF v.n > 1000 * v.d THEN Frac(1000, 1)
    ELSE v

\* v to the nearest hundredth of a point.
Rounded2(v) == Frac((2 * v.n + v.d) \div (2 * v.d), 1)

CritiqueSupplied == blend.critique.given /\ blend.critique.list # <<>>

InScale(x) == x \in 0 .. 1000

InputsInScale ==
    /\ \A k \in DOMAIN blend.scores : InScale(blend.scores[k])
    /\ \A i \in DOMAIN blend.critique.list : InScale(blend.critique.list[i].score)

\* C17: with critique scores supplied, the returned score is
\* 0.6 * section contribution + 0.4 * critique contribution, clamped to
\* [0, 10] and rounded to two decimal places; for section and critique
\* scores within [0, 10] it lies in [0, 10].
C17_BlendClampedRounded ==
    (blend.pc = "returned" /\ CritiqueSupplied) =>
        /\ FracEq(blend.out,
                  Rounded2(Clamped(Combined(
                      compute_section_weighted_score(blend.scores, blend.domain),
                      compute_critique_average(blend.critique)))))
        /\ InputsInScale =>
              /\ 0 <= blend.out.n
              /\ blend.out.n <= 1000 * blend.out.d

\* C18: with critique_domains absent or an empty list the returned score is
\* exactly the section contribution; with critique scores supplied and all
\* zero it is 0.6 * section contribution, as the 60/40 formula gives.
C18_AbsentVersusZero ==
    blend.pc = "returned" =>
        LET section_score == compute_section_weighted_score(blend.scores, blend.domain)
            l == blend.critique.list
        IN  /\ ~CritiqueSupplied => blend.out = section_score
            /\ (CritiqueSupplied /\ \A i \in DOMAIN l : l[i].has /\ l[i].score = 0) =>
                  FracEq(blend.out, Frac(6 * section_score.n, 10 * section_score.d))

\* Objectives 8 and Methodology 6 blended with two critique scores of zero:
\* the section contribution is 7.0 and the call returned 4.2.
C18_Witness ==
    /\ blend.pc = "returned" /\ blend.domain = "General"
    /\ blend.scores = [k \in {"Objectives", "Methodology"} |->
                          IF k = "Objectives" THEN 800 ELSE 600]
    /\ blend.critique = [given |-> TRUE,
                         list |-> <<[has |-> TRUE, score |-> 0], [has |-> TRUE, score |-> 0]>>]
    /\ FracEq(blend.out, Frac(420, 1))

(***************************************************************************)
(* The agents' parsing                                                     *)
(***************************************************************************)
Cleaned == strip_codeblock(parse.response)

\* Two values are the same value.
RECURSIVE ValEq(_, _)
ValEq(a, b) ==
    /\ a.kind = b.kind
    /\ CASE a.kind = "arr" ->
               /\ Len(a.v) = Len(b.v)
               /\ \A i \in DOMAIN a.v : ValEq(a.v[i], b.v[i])
         [] a.kind = "obj" ->
               /\ DOMAIN a.v = DOMAIN b.v
               /\ \A k \in DOMAIN a.v : ValEq(a.v[k], b.v[k])
         [] OTHER -> a.v = b.v

\* Two blocks end the same way.
OutEq(a, b) == a.exc = b.exc /\ ValEq(a.val, b.val)

\* The response, without its wrappers, is not JSON.
Malformed == json_loads(Cleaned).exc # "none"

\* The value is what json.loads gives for the repaired text, as it is or
\* wrapped under "scores".
IsRepairedParse(value) ==
    LET repaired == json_loads(repair_json(Cleaned))
    IN  /\ repaired.exc = "none"
        /\ \/ ValEq(value, repaired.val)
           \/ OutEq(Returns(value), Wrapped(repaired.val))

\* C19: for a malformed response no agent raises: the scoring agent returns
\* the repaired parse or its fallback, every other agent its fallback; and
\* the run is not aborted over what the scoring agent returned.
C19_MalformedNeverAborts ==
    (parse.pc = "returned" /\ Malformed) =>
        /\ parse.out.exc = "none"
        /\ parse.agent \in SimpleAgents =>
              ValEq(parse.out.val, AgentFallback(parse.agent, parse.response))
        /\ parse.agent = "run_grant_scoring" =>
              /\ \/ ValEq(parse.out.val, ScoringFallback(Cleaned))
                 \/ IsRepairedParse(parse.out.val)
              /\ AfterScoring(parse.out.val) = "continues"

\* C20: for a response that is valid JSON the agent returns what json.loads
\* gives for it, unmodified.
C20_ValidUnmodified ==
    (parse.pc = "returned" /\ ~Malformed) =>
        OutEq(parse.out, json_loads(Cleaned))

\* The strict parse of the response.
Loaded == json_loads(Cleaned).val

HasScores(value) == value.kind = "obj" /\ KScores \in DOMAIN value.v

\* A dict without "scores" but with the name of a section as a key.
IsFlat(value) ==
    /\ value.kind = "obj" /\ KScores \notin DOMAIN value.v
    /\ \E section \in SectionNames : section \in DOMAIN value.v

\* C20 (as the code has it): for a response that is valid JSON, every agent
\* but the scoring agent returns the strict parse unmodified; the scoring
\* agent returns it unmodified when it is a dict with the key "scores",
\* returns a flat dict of sections wrapped under "scores", and for any other
\* valid JSON returns the strict parse or its fallback of zero scores.
C20_ValidUnmodifiedOrWrapped ==
    (parse.pc = "returned" /\ ~Malformed) =>
        /\ parse.agent \in SimpleAgents => OutEq(parse.out, Returns(Loaded))
        /\ parse.agent = "run_grant_scoring" =>
              /\ HasScores(Loaded) => OutEq(parse.out, Returns(Loaded))
              /\ IsFlat(Loaded) => OutEq(parse.out, Wrapped(Loaded))
              /\ (~HasScores(Loaded) /\ ~IsFlat(Loaded)) =>
                    /\ parse.out.exc = "none"
                    /\ \/ ValEq(parse.out.val, Loaded)
                       \/ ValEq(parse.out.val, ScoringFallback(Cleaned))

\* The scoring agent was given {"Objectives": 7} and returned it under "scores".
C20_Witness ==
    /\ parse.pc = "returned" /\ parse.agent = "run_grant_scoring"
    /\ parse.response = <<LB, Q, "O", Q, COLON, "7", RB>>
    /\ parse.out.exc = "none"
    /\ parse.out.val.kind = "obj"
    /\ DOMAIN parse.out.val.v = {KScores, KOverallSummary}
    /\ ValEq(parse.out.val.v[KScores], JObj(Put(<<>>, KObjectives, JNum(1))))

(***************************************************************************)
(* The model call                                                          *)
(***************************************************************************)
Retryable(out) == out.kind = "Exception" /\ is_retryable(out.msg)

\* C21: one gemini_llm call invokes the model at most max_retries times;
\* an invocation follows a failure only if the failure carried a retryable
\* marker, after waits of 2 s then 4 s; and the call raises only when the
\* last failure was not retryable or was that of the last attempt.
C21_AtMostThreeInvocations ==
    /\ llm.invocations <= max_retries
    /\ \A i \in 1 .. (Len(llm.history) - 1) : Retryable(llm.history[i])
    /\ \A i \in DOMAIN llm.waits : llm.waits[i] = 2 * i
    /\ Len(llm.waits) <= max_retries - 1
    /\ llm.pc = "raised" =>
          /\ llm.history[Len(llm.history)].kind # "response"
          /\ \/ ~Retryable(llm.history[Len(llm.history)])
             \/ Len(llm.history) = max_retries

(***************************************************************************)
(* The retrieval index                                                     *)
(***************************************************************************)
\* C22: no two runs hold the same collection, the collection a run holds
\* has the chunks of its own document only, and what retrieval returned to
\* a run is content of its own document.
C22_IndexIsolated ==
    /\ \A r1, r2 \in RunIds :
          (r1 # r2 /\ evals[r1].built /\ evals[r2].built /\ evals[r1].vs # NoStore) =>
              evals[r1].vs # evals[r2].vs
    /\ \A r \in RunIds :
          /\ evals[r].vs # NoStore => vstores[evals[r].vs] = Pages(r)
          /\ evals[r].got \subseteq Pages(r)

\* Two runs hold an index at the same time and both have queried it.
C22_Witness ==
    /\ evals[1].pc = "summarized" /\ evals[2].pc = "budgeted"
    /\ evals[1].vs # NoStore /\ evals[2].vs # NoStore
    /\ evals[1].got = Pages(1) /\ evals[2].got = Pages(2)

\* C23: every run that built an index has released it when it has ended,
\* by returning or by an exception of a later stage.
C23_IndexReleased ==
    \A r \in RunIds :
        (evals[r].built /\ evals[r].pc \in {"returned", "raised"}) => evals[r].released

(***************************************************************************)
(* The repair of a response                                                *)
(***************************************************************************)
\* C24: repair_json only appends: its output is the input followed by one
\* quote if the quotes are odd in number, then as many "}" as there are
\* more "{" than "}", then as many "]" as there are more "[" than "]";
\* afterwards the quotes are even in number, no "{" and no "[" is left
\* without its closer by count, and a second repair changes nothing.
C24_RepairAppendOnly ==
    (parse.pc = "returned" /\ parse.agent = "run_grant_scoring") =>
        LET text == Cleaned
            repaired == repair_json(text)
            quotes == IF Occurrences(text, Q) % 2 = 1 THEN 1 ELSE 0
            braces == Max2(0, Occurrences(text, LB) - Occurrences(text, RB))
            brackets == Max2(0, Occurrences(text, LK) - Occurrences(text, RK))
        IN  /\ IsPrefix(text, repaired)
            /\ repaired = text \o Repeat(Q, quotes) \o Repeat(RB, braces) \o Repeat(RK, brackets)
            /\ Occurrences(repaired, Q) % 2 = 0
            /\ Occurrences(repaired, LB) <= Occurrences(repaired, RB)
            /\ Occurrences(repaired, LK) <= Occurrences(repaired, RK)
            /\ repair_json(repaired) = repaired

\* The scoring agent was given `{["`, a text that lacks a quote, a brace and
\* a bracket; its repair is `{[""}]`, which does not parse, and the agent
\* returned its fallback.
C24_Witness ==
    /\ parse.pc = "returned" /\ parse.agent = "run_grant_scoring"
    /\ parse.response = <<LB, LK, Q>>
    /\ repair_json(Cleaned) = <<LB, LK, Q, Q, RB, RK>>
    /\ ValEq(parse.out.val, ScoringFallback(Cleaned))

\* C26: whatever the response, run_grant_scoring returns a dict with a key
\* "scores" whose value is a dict of sections; it never raises and never
\* returns a value that is not a dict.
C26_ScoringReturnsScoresDict ==
    (parse.pc = "returned" /\ parse.agent = "run_grant_scoring") =>
        /\ parse.out.exc = "none"
        /\ parse.out.val.kind = "obj"
        /\ KScores \in DOMAIN parse.out.val.v
        /\ parse.out.val.v[KScores].kind = "obj"

(***************************************************************************)
(* The aborts of a run                                                     *)
(***************************************************************************)
\* C25: a run that fails because extraction yields nothing has called no
\* collaborator but input_agent and emitted no event of a stage after 0; a
\* run that fails because the scores are unusable has not called the
\* critique collaborator and has emitted no event of ordinal 4 or higher.
C25_AbortsAtOnce ==
    /\ failure = "no_pages" =>
          /\ \A i \in DOMAIN calls : calls[i].fn = "input_agent"
          /\ \A i \in DOMAIN emitted : emitted[i].stage_index = 0
    /\ failure = "bad_scores" =>
          /\ \A i \in DOMAIN calls : calls[i].fn # "run_grant_critique"
          /\ \A i \in DOMAIN emitted : emitted[i].stage_index < 4

(***************************************************************************)
(* The broadcaster's dictionaries                                          *)
(***************************************************************************)
\* C30: every session id that is a key of _connections has at least one
\* websocket in its set.
C30_NoEmptyObserverSet ==
    \A s \in DOMAIN connections : connections[s] # {}

\* The step is one of publish, subscribe, unsubscribe or close on session s.
OperationOn(s) ==
    \/ \E o \in Observers : conn[o].session = s /\ (ConnectRegister(o) \/ ConnectFlush(o))
    \/ \E o \in Observers : Disconnect(s, o)
    \/ Publish(s)
    \/ \E t \in sends : t.session = s /\ (SendNext(t) \/ SendCleanup(t))
    \/ CloseBegin(s) \/ CloseNext(s) \/ CloseFinal(s)

\* The step leaves the observer set and the buffer of session x as they were.
SessionUntouched(x) ==
    /\ (x \in DOMAIN connections') = (x \in DOMAIN connections)
    /\ Get(connections', x, {}) = Get(connections, x, {})
    /\ (x \in DOMAIN pending') = (x \in DOMAIN pending)
    /\ Get(pending', x, <<>>) = Get(pending, x, <<>>)

\* C29: a step of publish, subscribe, unsubscribe or close on session s hands
\* an event only to websockets that subscribed to s, and leaves the observer
\* set and the buffer of every other session unchanged.
C29_SessionIsolation ==
    [][\A s \in Sessions :
          OperationOn(s) =>
             /\ \A x \in Sessions \ {s} : SessionUntouched(x)
             /\ \A o \in Observers :
                   received'[o] # received[o] => conn[o].session = s]_vars

\* An event published to s2 reached the observer of s2 while s1 has an observer
\* of its own that received nothing.
C29_Witness ==
    /\ "w1" \in Get(connections, "s1", {})
    /\ "w2" \in Get(connections, "s2", {})
    /\ \E t \in sends : t.session = "s2" /\ t.pc = "done" /\ t.snap = {"w2"}
    /\ received["w2"] # <<>>
    /\ received["w1"] = <<>>

\* close_session was not called on any session.
NoCloseYet == \A s \in Sessions : closes[s].pc = "idle"

\* The sends whose loop over the snapshot is over (returned or raised).
PastDelivery == {t \in sends : t.pc # "deliver"}

DeliveredTo(t, o) == \E i \in DOMAIN received[o] : received[o][i] = t.msg

InBuffer(t) == \E i \in DOMAIN Get(pending, t.session, <<>>) : pending[t.session][i] = t.msg

\* A connect popped the message with the buffer and has not reached it yet.
InFlush(t) ==
    \E o \in Observers :
       /\ conn[o].pc = "flush"
       /\ \E i \in (conn[o].idx + 1) .. Len(conn[o].queue) : conn[o].queue[i] = t.msg

WsFailed(o) == ws[o] \in {"gone", "broken"}

\* C27: without close, every published event was delivered to at least one
\* websocket or is still in the buffer of its session (or in the hands of a
\* connect that is flushing the buffer).
C27_NoEventLost ==
    NoCloseYet =>
       \A t \in PastDelivery :
          \/ \E o \in Observers : DeliveredTo(t, o)
          \/ InBuffer(t)
          \/ InFlush(t)

\* C27, amended: without close, an event is lost only to a failing websocket.
\* An event published to a session without websockets is in the buffer, or
\* was popped by a connect that delivered it, is about to, or whose websocket
\* failed; an event published to a session with websockets reached every
\* websocket of the snapshot that did not fail, except those the loop never
\* got to when a send_json raised out of send.
C27_LostOnlyToFailure ==
    NoCloseYet =>
       \A t \in PastDelivery :
          IF t.snap = {}
          THEN \/ InBuffer(t)
               \/ \E o \in Observers :
                     /\ conn[o].session = t.session
                     /\ \E i \in DOMAIN conn[o].queue : conn[o].queue[i] = t.msg
                     /\ DeliveredTo(t, o) \/ InFlush(t) \/ WsFailed(o)
          ELSE \A o \in t.snap :
                  \/ DeliveredTo(t, o)
                  \/ WsFailed(o)
                  \/ t.pc = "raised" /\ o \in t.todo

\* The only websocket of the session failed during send: the event reached
\* nobody and is not in the buffer.
C27_Witness ==
    /\ NoCloseYet
    /\ \E t \in sends :
          /\ t.pc = "done"
          /\ t.snap # {}
          /\ \A o \in t.snap : WsFailed(o)
          /\ \A o \in Observers : ~DeliveredTo(t, o)
          /\ ~InBuffer(t)

(***************************************************************************)
(* The terminal event of a run                                             *)
(***************************************************************************)
\* No status event comes after a `complete` event in the sequence q.
CompleteIsLast(q) ==
    \A i, j \in DOMAIN q : i < j => ~(q[i].event = "complete" /\ q[j].event = "status")

\* C28: the `complete` event of a run is never handed to an observer, nor
\* appended to the buffer, ahead of a status event of the run: when it is
\* published no status event is still waiting on the loop, and no websocket
\* and no buffer holds a status event after it.
C28_CompleteLast ==
    /\ Published("complete") # {} => \A i \in DOMAIN loopQ : loopQ[i].kind # "send"
    /\ CompleteIsLast(Get(pending, RunSession, <<>>))
    /\ \A o \in Observers : CompleteIsLast(received[o])

====
